---- MODULE Spec2Model ----
(***************************************************************************)
(* RecallLens: identifier normalizer, field parser, text similarity and    *)
(* the tiered decision engine of the core package; the service worker and  *)
(* the scanner store of the web app; the paginated FDA fetcher.            *)
(*                                                                         *)
(* Conventions of the model                                                *)
(*  - a JavaScript string is a sequence of one-character strings, so that  *)
(*    it can be indexed: "L2201" is <<"L","2","2","0","1">>;               *)
(*  - an optional field is a sequence of length 0 (undefined) or 1;        *)
(*  - a confidence c is the integer 100*c (0.95 is 95);                    *)
(*  - a similarity score is an exact fraction [num, den];                  *)
(*  - what Date.parse makes of a day the month does not have depends on   *)
(*    the JavaScript engine, so every call that parses a date is taken     *)
(*    with each engine of Engines;                                         *)
(*  - the recall data a Response carries is its version number, and a      *)
(*    raw FDA record is its row number and whether it passes validation.   *)
(***************************************************************************)
EXTENDS Integers, Sequences, FiniteSets, TLC

VARIABLES
    \* decide(input): the DecisionInput, the returned MatchResult
    scan, sourceHits, result, pc,
    \* normalizeUPC(upc1), areUPCEquivalent(upc1, upc2) and their results
    upc1, upc2, details, equivalent, upcPc,
    \* parseLotCode, parseExpiryDate and extractFromOCRText of parseText and
    \* their results
    parseText, parsedLot, parsedExpiry, extracted, parsePc,
    \* isDateInRange(rangeDate, rangeStart, rangeEnd) and its result
    rangeDate, rangeStart, rangeEnd, inRange, rangePc,
    \* jaroWinklerSimilarity(name1, name2), isBrandSimilar(name1, name2),
    \* cosineSimilarity(name1, name2), isProductSimilar(name1, name2),
    \* normalizeText(name1) and their results
    name1, name2, similarity, brandSimilar, cosineSquared, productSimilar,
    normalized, simPc,
    \* service worker: the recall data the server publishes, the state of the
    \* network, the entry of the data cache for /data/latest.json, the
    \* response handed to the page, the handler that ran last
    serverData, network, dataCache, delivered, swPc,
    \* scanner store: the zustand state, and whether setDecision was called
    \* after the most recent setScanResult
    store, decidedSinceScan,
    \* fetchAllFDARecalls: the raw records the API holds, the locals skip,
    \* hasMore and allRecalls, the skip values requested so far, the raw
    \* results of the last request, the position in the function
    served, fetchSkip, hasMore, allRecalls, requested, lastResults, fetchPc

decideVars == <<scan, sourceHits, result, pc>>
upcVars == <<upc1, upc2, details, equivalent, upcPc>>
parseVars == <<parseText, parsedLot, parsedExpiry, extracted, parsePc>>
rangeVars == <<rangeDate, rangeStart, rangeEnd, inRange, rangePc>>
simVars == <<name1, name2, similarity, brandSimilar, cosineSquared, productSimilar,
             normalized, simPc>>
swVars == <<serverData, network, dataCache, delivered, swPc>>
storeVars == <<store, decidedSinceScan>>
fetchVars == <<served, fetchSkip, hasMore, allRecalls, requested, lastResults, fetchPc>>

vars == <<decideVars, upcVars, parseVars, rangeVars, simVars, swVars, storeVars,
          fetchVars>>

----------------------------------------------------------------------------
(* Generic helpers: optionals, truthiness, sequences                       *)

None == <<>>
Some(v) == <<v>>
IsSome(o) == Len(o) = 1
Get(o) == o[1]

\* JavaScript truthiness of an optional string: undefined and "" are falsy.
TruthyStr(o) == IsSome(o) /\ Len(Get(o)) > 0

\* JavaScript truthiness of an optional array or object: only undefined is falsy.
TruthyObj(o) == IsSome(o)

Range(s) == {s[i] : i \in 1..Len(s)}

Max(a, b) == IF a >= b THEN a ELSE b
Min(a, b) == IF a <= b THEN a ELSE b

\* s.substring(0, n)
Substring0(s, n) == SubSeq(s, 1, Min(n, Len(s)))

----------------------------------------------------------------------------
(* Characters                                                              *)

DigitChars == <<"0", "1", "2", "3", "4", "5", "6", "7", "8", "9">>
Digits == Range(DigitChars)

\* the value of each digit character
DigitValue == [c \in Digits |-> (CHOOSE i \in 1..10 : DigitChars[i] = c) - 1]

\* parseInt(c, 10) of a digit character
DigitVal(c) == DigitValue[c]

----------------------------------------------------------------------------
(* Identifier normalizer: schemas/recall.ts (utils/upc)                    *)

\* a replace that removes dashes and spaces only
StripSeparators(input) == SelectSeq(input, LAMBDA c : c \notin {"-", " "})

\* input.replace(/\D/g, '')
StripNonDigits(input) == SelectSeq(input, LAMBDA c : c \in Digits)

\* String.prototype.padStart(n, '0')
PadStart(s, n) ==
    IF Len(s) >= n THEN s ELSE [i \in 1..(n - Len(s)) |-> "0"] \o s

\* the weight validateChecksum gives the digit at 0-based index i
ChecksumWeight(length, i) ==
    IF length = 8 /\ i % 2 = 0 THEN 3 ELSE (IF i % 2 = 0 THEN 1 ELSE 3)

RECURSIVE ChecksumSum(_, _, _)
\* the loop of validateChecksum: sum of digit * weight over indices 0..i
ChecksumSum(code, length, i) ==
    IF i < 0 THEN 0
    ELSE DigitVal(code[i + 1]) * ChecksumWeight(length, i)
         + ChecksumSum(code, length, i - 1)

validateChecksum(code, length) ==
    IF Len(code) # length THEN FALSE
    ELSE LET sum == ChecksumSum(code, length, length - 2)
             checkDigit == DigitVal(code[length])
             calculatedCheck == (10 - (sum % 10)) % 10
         IN  checkDigit = calculatedCheck

normalizeUPC(input) ==
    LET cleaned == StripNonDigits(input)
    IN  IF Len(cleaned) = 8
          THEN [type |-> "EAN-8", normalized |-> PadStart(cleaned, 8),
                isValid |-> validateChecksum(cleaned, 8)]
        ELSE IF Len(cleaned) = 12
          THEN [type |-> "UPC-A", normalized |-> PadStart(cleaned, 12),
                isValid |-> validateChecksum(cleaned, 12)]
        ELSE IF Len(cleaned) = 13
          THEN [type |-> "EAN-13", normalized |-> PadStart(cleaned, 13),
                isValid |-> validateChecksum(cleaned, 13)]
        ELSE [type |-> "invalid", normalized |-> cleaned, isValid |-> FALSE]

\* a plausible slip: the isValid guard left out
areUPCEquivalentUnguarded(a, b) ==
    LET norm1 == normalizeUPC(a)
        norm2 == normalizeUPC(b)
    IN  IF norm1.type = "UPC-A" /\ norm2.type = "UPC-A"
          THEN Substring0(norm1.normalized, 11) = Substring0(norm2.normalized, 11)
        ELSE IF norm1.type = "EAN-13" /\ norm2.type = "EAN-13"
          THEN Substring0(norm1.normalized, 12) = Substring0(norm2.normalized, 12)
        ELSE FALSE

\* a plausible slip: only the first identifier's validity is looked at
areUPCEquivalentFirstValid(a, b) ==
    LET norm1 == normalizeUPC(a)
        norm2 == normalizeUPC(b)
    IN  IF ~norm1.isValid THEN FALSE
        ELSE IF norm1.type = "UPC-A" /\ norm2.type = "UPC-A"
          THEN Substring0(norm1.normalized, 11) = Substring0(norm2.normalized, 11)
        ELSE IF norm1.type = "EAN-13" /\ norm2.type = "EAN-13"
          THEN Substring0(norm1.normalized, 12) = Substring0(norm2.normalized, 12)
        ELSE FALSE

areUPCEquivalent(a, b) ==
    LET norm1 == normalizeUPC(a)
        norm2 == normalizeUPC(b)
    IN  IF ~norm1.isValid \/ ~norm2.isValid THEN FALSE
        ELSE IF norm1.type = "UPC-A" /\ norm2.type = "UPC-A"
          THEN Substring0(norm1.normalized, 11) = Substring0(norm2.normalized, 11)
        ELSE IF norm1.type = "EAN-13" /\ norm2.type = "EAN-13"
          THEN Substring0(norm1.normalized, 12) = Substring0(norm2.normalized, 12)
        ELSE FALSE

----------------------------------------------------------------------------
(* Text similarity: parsers/lot.ts (matching/text)                         *)

UpperChars == <<"A", "B", "C", "D", "E", "F", "G", "H", "I", "J", "K", "L", "M",
                "N", "O", "P", "Q", "R", "S", "T", "U", "V", "W", "X", "Y", "Z">>
LowerChars == <<"a", "b", "c", "d", "e", "f", "g", "h", "i", "j", "k", "l", "m",
                "n", "o", "p", "q", "r", "s", "t", "u", "v", "w", "x", "y", "z">>

\* the regular-expression classes \w and \s
WordChars == Range(UpperChars) \cup Range(LowerChars) \cup Digits \cup {"_"}
SpaceChars == {" ", "\t", "\n", "\r"}

LowerOf == [c \in Range(UpperChars) |-> LowerChars[CHOOSE i \in 1..26 : UpperChars[i] = c]]
UpperOf == [c \in Range(LowerChars) |-> UpperChars[CHOOSE i \in 1..26 : LowerChars[i] = c]]

ToLowerChar(c) == IF c \in DOMAIN LowerOf THEN LowerOf[c] ELSE c
ToUpperChar(c) == IF c \in DOMAIN UpperOf THEN UpperOf[c] ELSE c

toLowerCase(s) == [i \in 1..Len(s) |-> ToLowerChar(s[i])]
toUpperCase(s) == [i \in 1..Len(s) |-> ToUpperChar(s[i])]

RECURSIVE TrimStart(_)
TrimStart(s) ==
    IF Len(s) > 0 /\ s[1] \in SpaceChars THEN TrimStart(Tail(s)) ELSE s

RECURSIVE TrimEnd(_)
TrimEnd(s) ==
    IF Len(s) > 0 /\ s[Len(s)] \in SpaceChars
      THEN TrimEnd(SubSeq(s, 1, Len(s) - 1)) ELSE s

\* String.prototype.trim
trim(s) == TrimEnd(TrimStart(s))

\* .replace(/[^\w\s]/g, ' ')
ReplacePunctuation(s) ==
    [i \in 1..Len(s) |-> IF s[i] \in WordChars \cup SpaceChars THEN s[i] ELSE " "]

RECURSIVE CollapseFrom(_, _)
\* .replace(/\s+/g, ' ') from index i on
CollapseFrom(s, i) ==
    IF i > Len(s) THEN <<>>
    ELSE IF s[i] \in SpaceChars
      THEN (IF i > 1 /\ s[i - 1] \in SpaceChars THEN <<>> ELSE <<" ">>)
           \o CollapseFrom(s, i + 1)
    ELSE <<s[i]>> \o CollapseFrom(s, i + 1)

CollapseSpaces(s) == CollapseFrom(s, 1)

StopWords ==
    { <<"t", "h", "e">>, <<"a">>, <<"a", "n">>, <<"a", "n", "d">>, <<"o", "r">>,
      <<"b", "u", "t">>, <<"i", "n">>, <<"o", "n">>, <<"a", "t">>, <<"t", "o">>,
      <<"f", "o", "r">>, <<"o", "f">>, <<"w", "i", "t", "h">>, <<"b", "y">> }

RECURSIVE StopWordsFrom(_, _, _)
\* .replace(/\b(the|a|...)\b/g, '') from index i on; `word` is the run of
\* word characters that ends just before i
StopWordsFrom(s, i, word) ==
    LET kept == IF word \in StopWords THEN <<>> ELSE word
    IN  IF i > Len(s) THEN kept
        ELSE IF s[i] \in WordChars THEN StopWordsFrom(s, i + 1, Append(word, s[i]))
        ELSE kept \o <<s[i]>> \o StopWordsFrom(s, i + 1, <<>>)

RemoveStopWords(s) == StopWordsFrom(s, 1, <<>>)

normalizeText(text) ==
    trim(RemoveStopWords(CollapseSpaces(ReplacePunctuation(trim(toLowerCase(text))))))

MinOfSet(S) == CHOOSE x \in S : \A y \in S : x <= y

RECURSIVE JaroMatchesForward(_, _, _, _, _, _)
\* a "Find matches" loop whose window starts at i instead of i - matchWindow
JaroMatchesForward(s1, s2, matchWindow, i, m1, m2) ==
    IF i >= Len(s1) THEN [m1 |-> m1, m2 |-> m2]
    ELSE LET end == Min(i + matchWindow + 1, Len(s2))
             free == {j \in i..(end - 1) : j \notin m2 /\ s1[i + 1] = s2[j + 1]}
         IN  IF free = {} THEN JaroMatchesForward(s1, s2, matchWindow, i + 1, m1, m2)
             ELSE JaroMatchesForward(s1, s2, matchWindow, i + 1,
                                     m1 \cup {i}, m2 \cup {MinOfSet(free)})

RECURSIVE JaroMatches(_, _, _, _, _, _)
\* the "Find matches" loop from 0-based index i on; m1, m2 are the indices
\* whose s1Matches / s2Matches flag is set
JaroMatches(s1, s2, matchWindow, i, m1, m2) ==
    IF i >= Len(s1) THEN [m1 |-> m1, m2 |-> m2]
    ELSE LET start == Max(0, i - matchWindow)
             end == Min(i + matchWindow + 1, Len(s2))
             free == {j \in start..(end - 1) : j \notin m2 /\ s1[i + 1] = s2[j + 1]}
         IN  IF free = {} THEN JaroMatches(s1, s2, matchWindow, i + 1, m1, m2)
             ELSE JaroMatches(s1, s2, matchWindow, i + 1,
                              m1 \cup {i}, m2 \cup {MinOfSet(free)})

RECURSIVE PickFrom(_, _, _)
\* the characters of s at the 0-based indices in m, in order, from index i on
PickFrom(s, m, i) ==
    IF i >= Len(s) THEN <<>>
    ELSE (IF i \in m THEN <<s[i + 1]>> ELSE <<>>) \o PickFrom(s, m, i + 1)

RECURSIVE CommonPrefix(_, _, _)
\* the Winkler prefix loop: equal leading characters from 0-based index i on
CommonPrefix(s1, s2, i) ==
    IF i < Min(Min(Len(s1), Len(s2)), 4) /\ s1[i + 1] = s2[i + 1]
      THEN 1 + CommonPrefix(s1, s2, i + 1) ELSE 0

\* the score as an exact fraction
jaroWinklerSimilarity(a, b) ==
    LET s1Norm == normalizeText(a)
        s2Norm == normalizeText(b)
        l1 == Len(s1Norm)
        l2 == Len(s2Norm)
        matchWindow == (Max(l1, l2) \div 2) - 1
        found == JaroMatches(s1Norm, s2Norm, matchWindow, 0, {}, {})
        matches == Cardinality(found.m1)
        c1 == PickFrom(s1Norm, found.m1, 0)
        c2 == PickFrom(s2Norm, found.m2, 0)
        transpositions == Cardinality({k \in 1..matches : c1[k] # c2[k]})
        \* jaro = (m/l1 + m/l2 + (m - t/2)/m) / 3
        jnum == 2 * matches * matches * l2 + 2 * matches * matches * l1
                + (2 * matches - transpositions) * l1 * l2
        jden == 6 * matches * l1 * l2
        prefix == CommonPrefix(s1Norm, s2Norm, 0)
    IN  IF s1Norm = s2Norm THEN [num |-> 1, den |-> 1]
        ELSE IF l1 = 0 \/ l2 = 0 THEN [num |-> 0, den |-> 1]
        ELSE IF matchWindow < 0 THEN [num |-> 0, den |-> 1]
        ELSE IF matches = 0 THEN [num |-> 0, den |-> 1]
        ELSE [num |-> 10 * jnum + prefix * (jden - jnum), den |-> 10 * jden]

\* getNGrams: the n-grams of text with their counts
NGramKeys(text, n) == {SubSeq(text, i, i + n - 1) : i \in 1..(Len(text) - n + 1)}
NGramCount(text, n, g) ==
    Cardinality({i \in 1..(Len(text) - n + 1) : SubSeq(text, i, i + n - 1) = g})

RECURSIVE SumOver(_, _, _, _)
\* the loop over allKeys: sum of count_x(key) * count_y(key)
SumOver(keys, x, y, n) ==
    IF keys = {} THEN 0
    ELSE LET k == CHOOSE g \in keys : TRUE
         IN  NGramCount(x, n, k) * NGramCount(y, n, k) + SumOver(keys \ {k}, x, y, n)

\* the SQUARE of the score as an exact fraction (the score itself is
\* dotProduct / (sqrt(norm1) * sqrt(norm2)), which is never negative)
cosineSimilaritySquared(a, b, n) ==
    LET s1Norm == normalizeText(a)
        s2Norm == normalizeText(b)
        allKeys == NGramKeys(s1Norm, n) \cup NGramKeys(s2Norm, n)
        dotProduct == SumOver(allKeys, s1Norm, s2Norm, n)
        norm1 == SumOver(allKeys, s1Norm, s1Norm, n)
        norm2 == SumOver(allKeys, s2Norm, s2Norm, n)
    IN  IF s1Norm = s2Norm THEN [num |-> 1, den |-> 1]
        ELSE IF Len(s1Norm) = 0 \/ Len(s2Norm) = 0 THEN [num |-> 0, den |-> 1]
        ELSE IF norm1 = 0 \/ norm2 = 0 THEN [num |-> 0, den |-> 1]
        ELSE [num |-> dotProduct * dotProduct, den |-> norm1 * norm2]

\* score >= threshold, the threshold in hundredths
AtLeast(score, threshold) == score.num * 100 >= threshold * score.den
AtLeastSquared(scoreSq, threshold) ==
    scoreSq.num * 10000 >= threshold * threshold * scoreSq.den

isBrandSimilar(brand1, brand2, threshold) ==
    AtLeast(jaroWinklerSimilarity(brand1, brand2), threshold)

\* Math.max(jaroSim, cosineSim) >= threshold
isProductSimilar(product1, product2, threshold) ==
    \/ AtLeast(jaroWinklerSimilarity(product1, product2), threshold)
    \/ AtLeastSquared(cosineSimilaritySquared(product1, product2, 2), threshold)

----------------------------------------------------------------------------
(* Field parser: parsers/lot.ts                                            *)

\* new RegExp(pattern, 'i') throws a SyntaxError.  The lot patterns of the
\* model are the ones the fetchers write, ^literal$, with either anchor
\* optional, and patterns broken by a group that is never closed.
RegExpSyntaxError(pattern) ==
    Cardinality({i \in 1..Len(pattern) : pattern[i] = "("})
        # Cardinality({i \in 1..Len(pattern) : pattern[i] = ")"})

\* regex.test(lot) for a compiled pattern, flag 'i'
RegExpTest(pattern, lot) ==
    LET anchoredStart == Len(pattern) > 0 /\ pattern[1] = "^"
        anchoredEnd == Len(pattern) > 0 /\ pattern[Len(pattern)] = "$"
        literal == toUpperCase(SelectSeq(pattern, LAMBDA c : c \notin {"^", "$"}))
        subject == toUpperCase(lot)
        n == Len(literal)
    IN  \E k \in 1..(Len(subject) - n + 1) :
            /\ SubSeq(subject, k, k + n - 1) = literal
            /\ anchoredStart => k = 1
            /\ anchoredEnd => k + n - 1 = Len(subject)

\* a plausible slip: no try/catch semantics, a pattern that does not
\* compile places no restriction
matchesLotPatternNoCatch(lot, pattern) ==
    IF RegExpSyntaxError(pattern) THEN TRUE ELSE RegExpTest(pattern, lot)

matchesLotPattern(lot, pattern) ==
    IF RegExpSyntaxError(pattern) THEN FALSE ELSE RegExpTest(pattern, lot)

IsLeapYear(y) == (y % 4 = 0 /\ y % 100 # 0) \/ y % 400 = 0

DaysInMonth(y, m) ==
    IF m = 2 THEN (IF IsLeapYear(y) THEN 29 ELSE 28)
    ELSE IF m \in {4, 6, 9, 11} THEN 30 ELSE 31

RECURSIVE DaysBeforeMonth(_, _)
DaysBeforeMonth(y, m) ==
    IF m <= 1 THEN 0 ELSE DaysInMonth(y, m - 1) + DaysBeforeMonth(y, m - 1)

\* the day number of a calendar date (the order of getTime() values)
DayNumber(y, m, d) ==
    365 * y + (y \div 4) - (y \div 100) + (y \div 400)
    - (IF IsLeapYear(y) THEN 1 ELSE 0) + DaysBeforeMonth(y, m) + d

RECURSIVE ParseInt(_)
\* parseInt(s, 10) of a digit string
ParseInt(s) ==
    IF Len(s) = 0 THEN 0
    ELSE 10 * ParseInt(SubSeq(s, 1, Len(s) - 1)) + DigitVal(s[Len(s)])

IsDigitString(s) == \A i \in 1..Len(s) : s[i] \in Digits

\* the text has the date-only form YYYY-MM-DD of the Date Time String Format
IsISOShaped(s) ==
    /\ Len(s) = 10
    /\ s[5] = "-" /\ s[8] = "-"
    /\ IsDigitString(SubSeq(s, 1, 4) \o SubSeq(s, 6, 7) \o SubSeq(s, 9, 10))

\* the text is YYYY-MM-DD and names a day of the calendar
IsISODate(s) ==
    /\ IsISOShaped(s)
    /\ ParseInt(SubSeq(s, 6, 7)) \in 1..12
    /\ ParseInt(SubSeq(s, 9, 10)) \in
           1..DaysInMonth(ParseInt(SubSeq(s, 1, 4)), ParseInt(SubSeq(s, 6, 7)))

\* the text is YYYY-MM-DD with a month in 01..12 and a day in 01..31 that
\* the month does not have (02-30, 04-31, 02-29 outside a leap year)
IsOverflowDate(s) ==
    /\ IsISOShaped(s)
    /\ ~IsISODate(s)
    /\ ParseInt(SubSeq(s, 6, 7)) \in 1..12
    /\ ParseInt(SubSeq(s, 9, 10)) \in 1..31

\* Date.parse differs between JavaScript engines on a day the month does
\* not have: "rollover" engines (V8) carry the extra days into the next
\* month, "strict" engines (SpiderMonkey, JavaScriptCore) answer NaN.
Engines == {"rollover", "strict"}

\* new Date(s).getTime() under the given engine, in days; -1 stands for
\* NaN.  Only the date-only ISO form is modelled; every other text of the
\* model is not date-shaped.
ParseDate(s, engine) ==
    IF IsISODate(s) \/ (IsOverflowDate(s) /\ engine = "rollover")
      THEN DayNumber(ParseInt(SubSeq(s, 1, 4)), ParseInt(SubSeq(s, 6, 7)),
                     ParseInt(SubSeq(s, 9, 10)))
      ELSE -1

IsNaN(t) == t < 0

\* start and end are optional strings
isDateInRange(date, start, end, engine) ==
    LET targetDate == ParseDate(date, engine)
    IN  IF IsNaN(targetDate) THEN FALSE
        ELSE IF TruthyStr(start)
                /\ (IsNaN(ParseDate(Get(start), engine))
                    \/ targetDate < ParseDate(Get(start), engine))
          THEN FALSE
        ELSE IF TruthyStr(end)
                /\ (IsNaN(ParseDate(Get(end), engine))
                    \/ targetDate > ParseDate(Get(end), engine))
          THEN FALSE
        ELSE TRUE

----------------------------------------------------------------------------
(* Field parser: parseLotCode                                              *)

\* the result of String.prototype.match: the capture groups, or null
NoMatch == None

RECURSIVE DigitRun(_, _)
\* the length of the run of digits of s that starts at the 1-based index i
DigitRun(s, i) ==
    IF i <= Len(s) /\ s[i] \in Digits THEN 1 + DigitRun(s, i + 1) ELSE 0

RECURSIVE SkipRun(_, _, _)
\* the index that follows the run of characters of class that starts at i
SkipRun(s, i, class) ==
    IF i <= Len(s) /\ s[i] \in class THEN SkipRun(s, i + 1, class) ELSE i

\* the class [A-Z] under the flag i
Letters == Range(UpperChars) \cup Range(LowerChars)

\* s begins with the label under the flag i; a " " of the label stands for \s
StartsWithLabel(s, label) ==
    /\ Len(s) >= Len(label)
    /\ \A i \in 1..Len(label) :
           IF label[i] = " " THEN s[i] \in SpaceChars
           ELSE ToUpperChar(s[i]) = label[i]

\* what follows the label and the run of characters of class after it
AfterLabel(s, label, class) ==
    SubSeq(s, SkipRun(s, Len(label) + 1, class), Len(s))

\* /^(L?)(\d{4,6})([A-Z]?)$/i
MatchBareLot(s) ==
    LET p == IF Len(s) > 0 /\ ToUpperChar(s[1]) = "L" THEN 1 ELSE 0
        n == DigitRun(s, p + 1)
        rest == Len(s) - p - n
    IN  IF n \in 4..6 /\ (rest = 0 \/ (rest = 1 /\ s[Len(s)] \in Letters))
          THEN Some(<<SubSeq(s, 1, p), SubSeq(s, p + 1, p + n),
                      SubSeq(s, p + n + 1, Len(s))>>)
          ELSE NoMatch

\* v is ([A-Z]?\d{4,}) up to its end
IsLetterOptionalDigits(v) ==
    LET p == IF Len(v) > 0 /\ v[1] \in Letters THEN 1 ELSE 0
    IN  DigitRun(v, p + 1) >= 4 /\ p + DigitRun(v, p + 1) = Len(v)

\* v is ([A-Z0-9]+) up to its end
IsAlphanumeric(v) ==
    Len(v) > 0 /\ \A i \in 1..Len(v) : v[i] \in Letters \cup Digits

\* /^lot[:\s]*([A-Z]?\d{4,})$/i and the same for batch and serial
MatchLabelledLot(s, label) ==
    LET value == AfterLabel(s, label, {":"} \cup SpaceChars)
    IN  IF StartsWithLabel(s, label) /\ IsLetterOptionalDigits(value)
          THEN Some(<<value>>) ELSE NoMatch

\* a plausible slip: the model pattern written like the other labelled ones
MatchModelDigits(s) ==
    MatchLabelledLot(s, <<"M", "O", "D", "E", "L">>)

\* /^model[:\s]*([A-Z0-9]+)$/i
MatchModel(s) ==
    LET label == <<"M", "O", "D", "E", "L">>
        value == AfterLabel(s, label, {":"} \cup SpaceChars)
    IN  IF StartsWithLabel(s, label) /\ IsAlphanumeric(value)
          THEN Some(<<value>>) ELSE NoMatch

\* cleaned.match(pattern) for each pattern of LOT_PATTERNS, in order
LOT_PATTERNS(s) ==
    << MatchBareLot(s),
       MatchLabelledLot(s, <<"L", "O", "T">>),
       MatchLabelledLot(s, <<"B", "A", "T", "C", "H">>),
       MatchLabelledLot(s, <<"S", "E", "R", "I", "A", "L">>),
       MatchModel(s) >>

\* ${value} in a template literal: an undefined value prints as "undefined"
TemplateValue(o) ==
    IF IsSome(o) THEN Get(o) ELSE <<"u", "n", "d", "e", "f", "i", "n", "e", "d">>

\* value || undefined
OrUndefined(o) == IF TruthyStr(o) THEN o ELSE None

\* null, or the ParsedLot
parseLotCode(text) ==
    LET cleaned == toUpperCase(trim(text))
        matches == LOT_PATTERNS(cleaned)
        matching == {i \in 1..Len(matches) : matches[i] # NoMatch}
    IN  IF matching = {} THEN None
        ELSE LET match == Get(matches[MinOfSet(matching)])
                 \* const [, prefix = '', date, suffix = ''] = match
                 prefix == IF Len(match) >= 1 THEN match[1] ELSE <<>>
                 date == IF Len(match) >= 2 THEN Some(match[2]) ELSE None
                 suffix == IF Len(match) >= 3 THEN match[3] ELSE <<>>
             IN  Some([raw |-> trim(text),
                       normalized |-> prefix \o TemplateValue(date) \o suffix,
                       components |-> [prefix |-> OrUndefined(Some(prefix)),
                                       date |-> OrUndefined(date),
                                       suffix |-> OrUndefined(Some(suffix))]])

----------------------------------------------------------------------------
(* Field parser: parseExpiryDate and extractFromOCRText                    *)

RECURSIVE NumberToString(_)
\* the decimal digits of a natural number, as `${n}` prints it
NumberToString(n) ==
    IF n < 10 THEN <<DigitChars[n + 1]>>
    ELSE NumberToString(n \div 10) \o <<DigitChars[(n % 10) + 1]>>

\* One pattern of EXPIRY_PATTERNS.  Each of them is: one of the
\* alternatives of a label (none for the bare forms), a run of characters
\* of a class, then digits, one separator, one or two digits, one separator,
\* digits, and the end of the text.
ExpiryPattern(labels, skip, first, separators, third) ==
    [labels |-> labels, skip |-> skip, first |-> first,
     separators |-> separators, third |-> third]

EXPIRY_PATTERNS ==
    << \* /^(\d{1,2})[\/\-\s](\d{1,2})[\/\-\s](\d{4})$/
       ExpiryPattern({<<>>}, {}, 1..2, {"/", "-"} \cup SpaceChars, {4}),
       \* /^(\d{1,2})[\/\-](\d{1,2})[\/\-](\d{2})$/
       ExpiryPattern({<<>>}, {}, 1..2, {"/", "-"}, {2}),
       \* /^(\d{4})-(\d{1,2})-(\d{1,2})$/
       ExpiryPattern({<<>>}, {}, {4}, {"-"}, 1..2),
       \* /^best\s(?:if\s)?(?:used\s)?by\s(\d{1,2})[\/\-\s](\d{1,2})[\/\-\s](\d{2,4})$/i
       ExpiryPattern({ <<"B", "E", "S", "T", " ", "B", "Y", " ">>,
                       <<"B", "E", "S", "T", " ", "I", "F", " ", "B", "Y", " ">>,
                       <<"B", "E", "S", "T", " ", "U", "S", "E", "D", " ", "B", "Y", " ">>,
                       <<"B", "E", "S", "T", " ", "I", "F", " ", "U", "S", "E", "D", " ",
                         "B", "Y", " ">> },
                     {}, 1..2, {"/", "-"} \cup SpaceChars, 2..4),
       \* /^exp[.:\s]*(\d{1,2})[\/\-\s](\d{1,2})[\/\-\s](\d{2,4})$/i
       ExpiryPattern({<<"E", "X", "P">>}, {".", ":"} \cup SpaceChars,
                     1..2, {"/", "-"} \cup SpaceChars, 2..4),
       \* /^use\sby[:\s]*(\d{1,2})[\/\-\s](\d{1,2})[\/\-\s](\d{2,4})$/i
       ExpiryPattern({<<"U", "S", "E", " ", "B", "Y">>}, {":"} \cup SpaceChars,
                     1..2, {"/", "-"} \cup SpaceChars, 2..4),
       \* /^sell\sby[:\s]*(\d{1,2})[\/\-\s](\d{1,2})[\/\-\s](\d{2,4})$/i
       ExpiryPattern({<<"S", "E", "L", "L", " ", "B", "Y">>}, {":"} \cup SpaceChars,
                     1..2, {"/", "-"} \cup SpaceChars, 2..4) >>

\* the three groups of the numeric date that fills v, or null
MatchNumericDate(v, pattern) ==
    LET n1 == DigitRun(v, 1)
        n2 == DigitRun(v, n1 + 2)
        n3 == DigitRun(v, n1 + n2 + 3)
    IN  IF /\ n1 \in pattern.first
           /\ Len(v) >= n1 + 1 /\ v[n1 + 1] \in pattern.separators
           /\ n2 \in 1..2
           /\ Len(v) >= n1 + n2 + 2 /\ v[n1 + n2 + 2] \in pattern.separators
           /\ n3 \in pattern.third
           /\ n1 + n2 + n3 + 2 = Len(v)
          THEN Some(<<SubSeq(v, 1, n1), SubSeq(v, n1 + 2, n1 + n2 + 1),
                      SubSeq(v, n1 + n2 + 3, Len(v))>>)
          ELSE NoMatch

\* cleaned.match(pattern)
MatchExpiry(s, pattern) ==
    LET found == {MatchNumericDate(AfterLabel(s, label, pattern.skip), pattern) :
                     label \in {l \in pattern.labels : StartsWithLabel(s, l)}}
                 \ {NoMatch}
    IN  IF found = {} THEN NoMatch ELSE CHOOSE m \in found : TRUE

\* a plausible slip: full confidence on a matched pattern
ParsedExpiryCertain(raw, isoDate) ==
    [raw |-> raw, normalized |-> isoDate, confidence |-> 100]

\* the object parseExpiryDate returns
ParsedExpiry(raw, isoDate) ==
    [raw |-> raw, normalized |-> isoDate, confidence |-> 90]

RECURSIVE TryExpiryPatterns(_, _, _, _)
\* the loop over EXPIRY_PATTERNS from the 1-based index i on
TryExpiryPatterns(text, cleaned, i, engine) ==
    IF i > Len(EXPIRY_PATTERNS) THEN None
    ELSE LET match == MatchExpiry(cleaned, EXPIRY_PATTERNS[i])
             \* const [, month, day, year] = match
             month == Get(match)[1]
             day == Get(match)[2]
             year == Get(match)[3]
             fullYear == IF Len(year) = 2
                           THEN (IF ParseInt(year) < 50 THEN 2000 + ParseInt(year)
                                 ELSE 1900 + ParseInt(year))
                           ELSE ParseInt(year)
             monthNum == ParseInt(month)
             dayNum == ParseInt(day)
             isoDate == NumberToString(fullYear) \o <<"-">> \o PadStart(month, 2)
                        \o <<"-">> \o PadStart(day, 2)
         IN  IF match = NoMatch
               THEN TryExpiryPatterns(text, cleaned, i + 1, engine)
             ELSE IF monthNum < 1 \/ monthNum > 12 \/ dayNum < 1 \/ dayNum > 31
               THEN TryExpiryPatterns(text, cleaned, i + 1, engine)
             ELSE IF IsNaN(ParseDate(isoDate, engine))
               THEN TryExpiryPatterns(text, cleaned, i + 1, engine)
             ELSE Some(ParsedExpiry(trim(text), isoDate))

\* null, or the ParsedExpiry
parseExpiryDate(text, engine) ==
    TryExpiryPatterns(text, trim(text), 1, engine)

RECURSIVE Split(_, _)
\* s.split(sep) for a one-character sep
Split(s, sep) ==
    LET at == {i \in 1..Len(s) : s[i] = sep}
    IN  IF at = {} THEN <<s>>
        ELSE <<SubSeq(s, 1, MinOfSet(at) - 1)>>
             \o Split(SubSeq(s, MinOfSet(at) + 1, Len(s)), sep)

\* text.split('\n').map(line => line.trim()).filter(line => line.length > 0)
Lines(text) ==
    SelectSeq([i \in 1..Len(Split(text, "\n")) |-> trim(Split(text, "\n")[i])],
              LAMBDA line : Len(line) > 0)

RECURSIVE ExtractLinesUnshift(_, _, _)
\* a plausible slip: results put at the front of the lists (unshift for push)
ExtractLinesUnshift(lines, i, engine) ==
    IF i > Len(lines) THEN [lots |-> <<>>, expiries |-> <<>>]
    ELSE LET lot == parseLotCode(lines[i])
             expiry == parseExpiryDate(lines[i], engine)
             rest == ExtractLinesUnshift(lines, i + 1, engine)
         IN  IF IsSome(lot)
               THEN [rest EXCEPT !.lots = @ \o <<Get(lot)>>]
             ELSE IF IsSome(expiry)
               THEN [rest EXCEPT !.expiries = @ \o <<Get(expiry)>>]
             ELSE rest

RECURSIVE ExtractLines(_, _, _)
\* the loop over lines from the 1-based index i on
ExtractLines(lines, i, engine) ==
    IF i > Len(lines) THEN [lots |-> <<>>, expiries |-> <<>>]
    ELSE LET lot == parseLotCode(lines[i])
             expiry == parseExpiryDate(lines[i], engine)
             rest == ExtractLines(lines, i + 1, engine)
         IN  IF IsSome(lot)
               THEN [rest EXCEPT !.lots = <<Get(lot)>> \o @]
             ELSE IF IsSome(expiry)
               THEN [rest EXCEPT !.expiries = <<Get(expiry)>> \o @]
             ELSE rest

extractFromOCRText(text, engine) == ExtractLines(Lines(text), 1, engine)

----------------------------------------------------------------------------
(* Decision engine: parsers/lot.ts (matching/decision)                     *)

\* record.lotRegex.some(pattern => matchesLotPattern(lot, pattern))
SomeLotPatternMatches(record, lot) ==
    \E k \in 1..Len(Get(record.lotRegex)) :
        matchesLotPattern(lot, Get(record.lotRegex)[k])

\* the predicate of the filter in findUPCMatches
RecordHasUPC(normalizedUPC, record) ==
    \E k \in 1..Len(record.upcs) :
        LET normalizedRecordUPC == normalizeUPC(record.upcs[k])
        IN  /\ normalizedRecordUPC.isValid
            /\ \/ normalizedUPC.normalized = normalizedRecordUPC.normalized
               \/ areUPCEquivalent(normalizedUPC.normalized,
                                   normalizedRecordUPC.normalized)

findUPCMatches(upc, records) ==
    IF ~TruthyStr(upc) THEN <<>>
    ELSE LET normalizedUPC == normalizeUPC(Get(upc))
         IN  IF ~normalizedUPC.isValid THEN <<>>
             ELSE SelectSeq(records, LAMBDA record : RecordHasUPC(normalizedUPC, record))

\* a plausible slip: an absent scan field counted as a mismatch
BrandProductMatchNoWildcard(brand, product, record) ==
    /\ TruthyStr(brand) /\ TruthyStr(product)
    /\ \E k \in 1..Len(record.brand) : isBrandSimilar(Get(brand), record.brand[k], 80)
    /\ isProductSimilar(Get(product), record.product, 70)

\* the body of the loop in findBrandProductMatches
BrandProductMatch(brand, product, record) ==
    LET brandMatch ==
            IF TruthyStr(brand)
              THEN \E k \in 1..Len(record.brand) :
                       isBrandSimilar(Get(brand), record.brand[k], 80)
              ELSE TRUE
        productMatch ==
            IF TruthyStr(product)
              THEN isProductSimilar(Get(product), record.product, 70)
              ELSE TRUE
    IN  brandMatch /\ productMatch

\* a plausible slip: the `!brand && !product` guard left out
findBrandProductMatchesUnguarded(brand, product, records) ==
    SelectSeq(records, LAMBDA record : BrandProductMatch(brand, product, record))

findBrandProductMatches(brand, product, records) ==
    IF ~TruthyStr(brand) /\ ~TruthyStr(product) THEN <<>>
    ELSE SelectSeq(records, LAMBDA record : BrandProductMatch(brand, product, record))

\* a plausible slip: the `!lot` alternative left out
IsRedMatchLotRequired(record, lot) ==
    \/ ~TruthyObj(record.lotRegex)
    \/ TruthyStr(lot) /\ SomeLotPatternMatches(record, Get(lot))

\* the filter that gives redMatches in tier 1
IsRedMatch(record, lot) ==
    \/ ~TruthyObj(record.lotRegex)
    \/ ~TruthyStr(lot)
    \/ SomeLotPatternMatches(record, Get(lot))

\* a plausible slip: the expiration alternative left out
IsConstrainedByLotOnly(record) ==
    TruthyObj(record.lotRegex)

\* the filter that gives constrainedMatches in tier 2
IsConstrained(record) ==
    TruthyObj(record.lotRegex) \/ TruthyObj(record.expiration)

\* the filter that gives lotMatches in tier 2
IsLotMatch(record, lot, expiry, engine) ==
    IF TruthyObj(record.lotRegex) /\ TruthyStr(lot)
      THEN SomeLotPatternMatches(record, Get(lot))
    ELSE IF TruthyObj(record.expiration) /\ TruthyStr(expiry)
      THEN isDateInRange(Get(expiry), Get(record.expiration).start,
                         Get(record.expiration).end, engine)
    ELSE FALSE

\* a plausible slip: a confidence of zero on the no-match result
GreenZeroConfidence ==
    [decision |-> "GREEN", reasons |-> <<"No recalls found for this product">>,
     matches |-> <<>>, confidence |-> Some(0)]

Green ==
    [decision |-> "GREEN", reasons |-> <<"No recalls found for this product">>,
     matches |-> <<>>, confidence |-> None]

\* a plausible slip: YELLOW as soon as one matched record is not a red match
UPCTierAnyMismatch(upcMatches, lot) ==
    LET redMatches == SelectSeq(upcMatches, LAMBDA record : IsRedMatch(record, lot))
    IN  IF Len(redMatches) = Len(upcMatches)
          THEN [decision |-> "RED",
                reasons |-> <<"Exact UPC match found",
                              IF TruthyStr(lot) THEN "Lot code matches recall criteria"
                              ELSE "No lot code restrictions in recall">>,
                matches |-> redMatches, confidence |-> Some(95)]
          ELSE [decision |-> "YELLOW",
                reasons |-> <<"Exact UPC match found",
                              "Your lot code does not match the recalled lots",
                              "Please verify your lot code matches the recall notice">>,
                matches |-> upcMatches, confidence |-> Some(80)]

\* tier 1, entered with upcMatches non-empty
UPCTier(upcMatches, lot) ==
    LET redMatches == SelectSeq(upcMatches, LAMBDA record : IsRedMatch(record, lot))
    IN  IF Len(redMatches) > 0
          THEN [decision |-> "RED",
                reasons |-> <<"Exact UPC match found",
                              IF TruthyStr(lot) THEN "Lot code matches recall criteria"
                              ELSE "No lot code restrictions in recall">>,
                matches |-> redMatches, confidence |-> Some(95)]
          ELSE [decision |-> "YELLOW",
                reasons |-> <<"Exact UPC match found",
                              "Your lot code does not match the recalled lots",
                              "Please verify your lot code matches the recall notice">>,
                matches |-> upcMatches, confidence |-> Some(80)]

\* tier 2, entered with brandProductMatches non-empty
BrandProductTier(brandProductMatches, lot, expiry, engine) ==
    LET constrainedMatches == SelectSeq(brandProductMatches, IsConstrained)
        lotMatches ==
            SelectSeq(constrainedMatches,
                      LAMBDA record : IsLotMatch(record, lot, expiry, engine))
    IN  IF Len(constrainedMatches) > 0
          THEN IF Len(lotMatches) > 0
                 THEN [decision |-> "RED",
                       reasons |-> <<"Brand and product match found",
                                     "Lot/expiry date matches recall criteria">>,
                       matches |-> lotMatches, confidence |-> Some(85)]
                 ELSE [decision |-> "YELLOW",
                       reasons |-> <<"Brand and product match found",
                                     "Your lot/expiry date does not match the recalled range",
                                     "Please verify your lot/expiry date matches the recall notice">>,
                       matches |-> constrainedMatches, confidence |-> Some(70)]
          ELSE [decision |-> "YELLOW",
                reasons |-> <<"Brand and product match found",
                              "No specific lot/date restrictions in recall",
                              "Please verify this matches your product">>,
                matches |-> brandProductMatches, confidence |-> Some(60)]

\* a plausible slip: the tiers tried in the wrong order
decideBrandFirst(input, engine) ==
    LET upcMatches == findUPCMatches(input.upc, input.sourceHits)
        brandProductMatches ==
            findBrandProductMatches(input.brand, input.product, input.sourceHits)
    IN  IF Len(input.sourceHits) = 0 THEN Green
        ELSE IF Len(brandProductMatches) > 0
          THEN BrandProductTier(brandProductMatches, input.lot, input.expiry, engine)
        ELSE IF Len(upcMatches) > 0 THEN UPCTier(upcMatches, input.lot)
        ELSE Green

decide(input, engine) ==
    LET upcMatches == findUPCMatches(input.upc, input.sourceHits)
        brandProductMatches ==
            findBrandProductMatches(input.brand, input.product, input.sourceHits)
    IN  IF Len(input.sourceHits) = 0 THEN Green
        ELSE IF Len(upcMatches) > 0 THEN UPCTier(upcMatches, input.lot)
        ELSE IF Len(brandProductMatches) > 0
          THEN BrandProductTier(brandProductMatches, input.lot, input.expiry, engine)
        ELSE Green

----------------------------------------------------------------------------
(* Service worker: apps/web/public/sw.js                                   *)

\* a Response: the version of the recall data it carries (0 for an error
\* page), its ok flag, and whether its body has been read
Response(data, ok) == [data |-> data, ok |-> ok, bodyUsed |-> FALSE]

\* response.json(): reads the body
ReadBody(response) == [response EXCEPT !.bodyUsed = TRUE]

\* cache.put(request, response): rejects with a TypeError, the entry left as
\* it was, when the body of the response has been read
CachePut(cache, response) ==
    IF response.bodyUsed THEN cache ELSE Some(response.data)

\* cache.match(request): the cached response, or undefined
CacheMatch(cache) ==
    IF IsSome(cache) THEN Some(Response(Get(cache), TRUE)) ELSE None

\* fetch(request): a 200 with the published data, a 500, or a rejection
NetworkFetch(net, published) ==
    CASE net = "up" -> Some(Response(published, TRUE))
      [] net = "error" -> Some(Response(0, FALSE))
      [] OTHER -> None

\* the /data/ branch of the fetch listener: the cache entry afterwards and
\* the response the page receives
HandleDataFetch(cache, net, published) ==
    LET response == CacheMatch(cache)
        networkResponse == NetworkFetch(net, published)
    IN  IF TruthyObj(response)
          THEN [cache |-> cache, response |-> response]
        ELSE IF IsSome(networkResponse)
          THEN [cache |-> IF Get(networkResponse).ok
                            THEN CachePut(cache, Get(networkResponse)) ELSE cache,
                response |-> networkResponse]
        ELSE [cache |-> cache, response |-> CacheMatch(cache)]

\* updateRecallData, run by the 'data-sync' event: the cache entry afterwards
updateRecallData(cache, net, published) ==
    LET response == NetworkFetch(net, published)
    IN  IF IsSome(response) /\ Get(response).ok
          THEN CachePut(cache, ReadBody(Get(response)))
        ELSE cache

----------------------------------------------------------------------------
(* Scanner store: apps/web/src/lib/stores/scanner.ts                       *)

InitialStore ==
    [upc |-> None, brand |-> None, product |-> None, lot |-> None, expiry |-> None,
     decision |-> None, reasons |-> <<>>, matches |-> <<>>, confidence |-> None,
     isScanning |-> FALSE, isProcessing |-> FALSE, error |-> None]

setScanResult(state, scanned) ==
    [state EXCEPT !.upc = scanned.upc, !.brand = scanned.brand,
                  !.product = scanned.product, !.lot = scanned.lot,
                  !.expiry = scanned.expiry, !.error = None]

setDecision(state, decision, reasons, matches, confidence) ==
    [state EXCEPT !.decision = decision, !.reasons = reasons, !.matches = matches,
                  !.confidence = confidence, !.isProcessing = FALSE, !.error = None]

setScanning(state, scanning) == [state EXCEPT !.isScanning = scanning]

setProcessing(state, processing) == [state EXCEPT !.isProcessing = processing]

setError(state, error) == [state EXCEPT !.error = error, !.isProcessing = FALSE]

reset(state) == InitialStore

----------------------------------------------------------------------------
(* FDA fetcher: packages/fetchers/src/fda/fetcher.ts                       *)

\* the page size; 1000 in the source, scaled down
limit == 2

\* the rows [skip, skip + limit) of the data the API holds: response.data.results
ResultsAt(data, skip) ==
    SubSeq(data, skip + 1, Min(skip + limit, Len(data)))

\* the loop over rawRecalls: the records that pass validateFDARecall, normalized
NormalizeAll(rawRecalls) ==
    LET valid == SelectSeq(rawRecalls, LAMBDA rawRecall : rawRecall.valid)
    IN  [i \in 1..Len(valid) |-> [id |-> valid[i].id]]

\* fetchFDARecalls when the request succeeds
fetchFDARecalls(data, skip) == NormalizeAll(ResultsAt(data, skip))

----------------------------------------------------------------------------
(* Inputs of the decision engine                                           *)

\* the longest candidate list handed to decide
MaxHits == 2

UPC_A == <<"0", "1", "2", "3", "4", "5", "6", "7", "8", "9", "0", "5">>
UPC_A_Dashed == <<"0", "-", "1", "2", "3", "4", "5", "-", "6", "7", "8", "9", "0", "-", "5">>
UPC_A_BadCheck == <<"0", "1", "2", "3", "4", "5", "6", "7", "8", "9", "0", "6">>
EAN_13 == <<"4", "0", "0", "6", "3", "8", "1", "3", "3", "3", "9", "3", "1">>
EAN_8 == <<"1", "0", "2", "0", "3", "0", "4", "0">>

Acme == <<"a", "c", "m", "e">>
Zest == <<"z", "e", "s", "t">>
Jam == <<"j", "a", "m">>
Soap == <<"s", "o", "a", "p">>

Lot2201 == <<"^", "L", "2", "2", "0", "1", "$">>
LotBroken == <<"^", "L", "2", "2", "(", "0", "1", "$">>

Window == [start |-> Some(<<"2", "0", "2", "4", "-", "0", "1", "-", "0", "1">>), end |-> Some(<<"2", "0", "2", "4", "-", "1", "2", "-", "3", "1">>)]

Rec(id, brand, product, upcs, lotRegex, expiration) ==
    [id |-> id, brand |-> brand, product |-> product, upcs |-> upcs,
     lotRegex |-> lotRegex, expiration |-> expiration]

\* the recall records the candidate lists are drawn from
Catalog ==
    << Rec("upc-plain", <<Acme>>, Jam, <<UPC_A>>, None, None),
       Rec("upc-lot", <<Acme>>, Jam, <<UPC_A>>, Some(<<Lot2201>>), None),
       Rec("upc-broken", <<Zest>>, Soap, <<UPC_A>>, Some(<<LotBroken>>), None),
       Rec("upc-ean", <<Zest>>, Soap, <<UPC_A_BadCheck, EAN_13, EAN_8>>, None, None),
       Rec("bp-lot", <<Zest, Acme>>, Jam, <<UPC_A_BadCheck>>, Some(<<Lot2201>>), None),
       Rec("bp-window", <<Acme>>, Jam, <<>>, None, Some(Window)),
       Rec("bp-lot-window", <<Acme>>, Jam, <<>>, Some(<<Lot2201>>), Some(Window)),
       Rec("bp-broken", <<Acme>>, Jam, <<>>, Some(<<LotBroken, Lot2201>>), None),
       Rec("brand-only", <<Acme>>, Soap, <<>>, None, None),
       Rec("product-only", <<Zest>>, Jam, <<>>, None, None) >>

RECURSIVE PickRecords(_, _)
\* the records of the catalog at the indices in S, in catalog order, from i on
PickRecords(S, i) ==
    IF i > Len(Catalog) THEN <<>>
    ELSE (IF i \in S THEN <<Catalog[i]>> ELSE <<>>) \o PickRecords(S, i + 1)

CandidateLists ==
    {PickRecords(S, 1) : S \in {T \in SUBSET (1..Len(Catalog)) : Cardinality(T) <= MaxHits}}

ScanInputs ==
    [upc : {None, Some(UPC_A_Dashed), Some(UPC_A_BadCheck), Some(EAN_13),
            Some(EAN_8)},
     brand : {None, Some(<<"A", "c", "n", "e">>)},
     product : {None, Some(<<"J", "a", "m", "s">>)},
     lot : {None, Some(<<>>), Some(<<"l", "2", "2", "0", "1">>), Some(<<"L", "2", "2", "0", "5">>)},
     expiry : {None, Some(<<"2", "0", "2", "4", "-", "0", "6", "-", "1", "5">>), Some(<<"2", "0", "2", "5", "-", "0", "6", "-", "1", "5">>)}]

\* the DecisionInput decide is called with
Input == [upc |-> scan.upc, brand |-> scan.brand, product |-> scan.product,
          lot |-> scan.lot, expiry |-> scan.expiry, sourceHits |-> sourceHits]

NoResult == [decision |-> "NONE", reasons |-> <<>>, matches |-> <<>>, confidence |-> None]
NoDetails == [type |-> "NONE", normalized |-> <<>>, isValid |-> FALSE]

InitDecide ==
    /\ scan \in ScanInputs
    /\ sourceHits \in CandidateLists
    /\ result = NoResult
    /\ pc = "call"

\* one call of decide, on whichever engine the build runs
Decide ==
    /\ pc = "call"
    /\ \E engine \in Engines : result' = decide(Input, engine)
    /\ pc' = "returned"
    /\ UNCHANGED <<scan, sourceHits>>
    /\ UNCHANGED <<upcVars, parseVars, rangeVars, simVars,
                 swVars, storeVars, fetchVars>>

IdleDecide ==
    /\ scan = [upc |-> None, brand |-> None, product |-> None, lot |-> None,
               expiry |-> None]
    /\ sourceHits = <<>>
    /\ result = NoResult
    /\ pc = "idle"

IdleUPC ==
    /\ upc1 = <<>>
    /\ upc2 = <<>>
    /\ details = NoDetails
    /\ equivalent = FALSE
    /\ upcPc = "idle"

NoExtract == [lots |-> <<>>, expiries |-> <<>>]

IdleParse ==
    /\ parseText = <<>>
    /\ parsedLot = None
    /\ parsedExpiry = None
    /\ extracted = NoExtract
    /\ parsePc = "idle"

IdleRange ==
    /\ rangeDate = <<>>
    /\ rangeStart = None
    /\ rangeEnd = None
    /\ inRange = FALSE
    /\ rangePc = "idle"

NoScore == [num |-> 0, den |-> 1]

IdleSim ==
    /\ name1 = <<>>
    /\ name2 = <<>>
    /\ similarity = NoScore
    /\ brandSimilar = FALSE
    /\ cosineSquared = NoScore
    /\ productSimilar = FALSE
    /\ normalized = <<>>
    /\ simPc = "idle"

IdleSW ==
    /\ serverData = 0
    /\ network = "down"
    /\ dataCache = None
    /\ delivered = None
    /\ swPc = "off"

IdleStore ==
    /\ store = InitialStore
    /\ decidedSinceScan = FALSE

IdleFetch ==
    /\ served = <<>>
    /\ fetchSkip = 0
    /\ hasMore = FALSE
    /\ allRecalls = <<>>
    /\ requested = <<>>
    /\ lastResults = None
    /\ fetchPc = "idle"

Init == InitDecide /\ IdleUPC /\ IdleParse /\ IdleRange /\ IdleSim
    /\ IdleSW /\ IdleStore /\ IdleFetch

Next == Decide

Spec == Init /\ [][Next]_vars

----------------------------------------------------------------------------
(* Inputs of the identifier normalizer                                     *)

\* the period of the digit pattern a generated code repeats
SeedLen == 2

SeedDigits == {"0", "1", "3", "7", "9"}
CodeLengths == {8, 12, 13}

\* the code of the given length whose digits before the last repeat seed
\* and whose last digit is check
MakeCode(length, seed, check) ==
    [i \in 1..length |-> IF i = length THEN check ELSE seed[((i - 1) % SeedLen) + 1]]

\* the code as printed on a label, a dash after the first digit
Dashed(code) == <<code[1], "-">> \o Tail(code)

GeneratedCodes ==
    {MakeCode(length, seed, check) :
        length \in CodeLengths, seed \in [1..SeedLen -> SeedDigits], check \in Digits}

\* the code as typed with its label, one digit short, one digit long
Labelled(code) == <<"N", "o", ".", " ">> \o code
Shortened(code) == SubSeq(code, 1, Len(code) - 1)
Lengthened(code) == code \o <<"0">>

\* codes whose check digit is 0 or 5, in the other forms
OtherForms ==
    LET some == {c \in GeneratedCodes : c[Len(c)] \in {"0", "5"}}
    IN  {Labelled(c) : c \in some} \cup {Shortened(c) : c \in some}
            \cup {Lengthened(c) : c \in some} \cup {<<>>, <<"n", "/", "a">>}

UPCInputs == GeneratedCodes \cup {Dashed(c) : c \in GeneratedCodes} \cup OtherForms

\* the code with its last character, when a digit, replaced by the next digit
NextCheck(code) ==
    IF Len(code) = 0 \/ code[Len(code)] \notin Digits THEN code
    ELSE [code EXCEPT ![Len(code)] =
              DigitChars[((DigitVal(code[Len(code)]) + 1) % 10) + 1]]

\* the second arguments areUPCEquivalent is tried with
Variants(code) == {code, NextCheck(code), StripNonDigits(code), EAN_13}

InitUPC ==
    /\ IdleDecide /\ IdleParse /\ IdleRange /\ IdleSim
    /\ IdleSW /\ IdleStore /\ IdleFetch
    /\ upc1 \in UPCInputs
    /\ upc2 \in Variants(upc1)
    /\ details = NoDetails
    /\ equivalent = FALSE
    /\ upcPc = "call"

\* one call of normalizeUPC
NormalizeUPC ==
    /\ upcPc = "call"
    /\ details' = normalizeUPC(upc1)
    /\ upcPc' = "normalized"
    /\ UNCHANGED <<upc1, upc2, equivalent>>
    /\ UNCHANGED <<decideVars, parseVars, rangeVars, simVars,
                 swVars, storeVars, fetchVars>>

\* one call of areUPCEquivalent
AreUPCEquivalent ==
    /\ upcPc = "call"
    /\ equivalent' = areUPCEquivalent(upc1, upc2)
    /\ upcPc' = "compared"
    /\ UNCHANGED <<upc1, upc2, details>>
    /\ UNCHANGED <<decideVars, parseVars, rangeVars, simVars,
                 swVars, storeVars, fetchVars>>

NextUPC == NormalizeUPC \/ AreUPCEquivalent

SpecUPC == InitUPC /\ [][NextUPC]_vars

----------------------------------------------------------------------------
(* Inputs of the field parser                                              *)

\* the longest run of digits in a lot value
MaxRun == 7

\* the most lines of an OCR text
MaxLines == 3

\* the first n digits of a fixed run
DigitsOfLength(n) == SubSeq(<<"2", "2", "0", "7", "1", "5", "3", "8", "4", "6">>, 1, n)

LotLabels ==
    { <<>>, <<"L", "O", "T">>, <<"B", "a", "t", "c", "h">>,
      <<"s", "e", "r", "i", "a", "l">>, <<"M", "O", "D", "E", "L">> }

LotSeparators == { <<>>, <<":", " ">>, <<" ">> }

LotValues ==
    { prefix \o DigitsOfLength(n) \o suffix :
        prefix \in { <<>>, <<"L">>, <<"a">>, <<"A", "B">> },
        n \in 0..MaxRun,
        suffix \in { <<>>, <<"b">> } }

LotTexts ==
    { label \o separator \o value :
        label \in LotLabels, separator \in LotSeparators, value \in LotValues }

ExpiryLabels ==
    { <<>>, <<"E", "X", "P", " ">>, <<"e", "x", "p", ":">>,
      <<"B", "e", "s", "t", " ", "b", "y", " ">>,
      <<"U", "S", "E", " ", "B", "Y", ":", " ">> }

Months == { <<"2">>, <<"0", "2">>, <<"0", "4">>, <<"1", "2">>, <<"1", "3">>, <<"0">> }
Days == { <<"5">>, <<"2", "9">>, <<"3", "0">>, <<"3", "1">>, <<"3", "2">>, <<"0", "0">> }
Years == { <<"2", "3">>, <<"2", "4">>, <<"4", "9">>, <<"5", "0">>,
           <<"2", "0", "2", "3">>, <<"2", "0", "2", "4">> }

\* month, day, year with one separator character
NumericDates ==
    { month \o separator \o day \o separator \o year :
        month \in Months, day \in Days, year \in Years,
        separator \in { <<"/">>, <<"-">>, <<" ">> } }

\* year, month, day in the order of the ISO form
ISODates ==
    { year \o <<"-">> \o month \o <<"-">> \o day :
        year \in {y \in Years : Len(y) = 4}, month \in Months, day \in Days }

ExpiryTexts ==
    { label \o date : label \in ExpiryLabels, date \in NumericDates } \cup ISODates

\* the lines an OCR text is made of
OCRLines ==
    { <<"L", "2", "2", "0", "7", "A">>,
      <<"L", "O", "T", ":", " ", "1", "2", "3", "4", "5">>,
      <<"2", "2", "1", "2", "3", "1">>,
      <<" ", "E", "X", "P", " ", "0", "2", "/", "2", "9", "/", "2", "4", "\r">>,
      <<"e", "x", "p", " ", "0", "2", "/", "3", "0", "/", "2", "4">>,
      <<"0", "6", "/", "1", "5", "/", "2", "0", "2", "4">>,
      <<"K", "e", "e", "p", " ", "c", "o", "l", "d">>,
      <<" ", " ">> }

RECURSIVE Join(_)
\* the lines with a line feed between them
Join(lines) ==
    IF Len(lines) = 0 THEN <<>>
    ELSE IF Len(lines) = 1 THEN lines[1]
    ELSE lines[1] \o <<"\n">> \o Join(Tail(lines))

OCRTexts ==
    { Join(lines) : lines \in UNION { [1..n -> OCRLines] : n \in 1..MaxLines } }

InitParse ==
    /\ IdleDecide /\ IdleUPC /\ IdleRange /\ IdleSim
    /\ IdleSW /\ IdleStore /\ IdleFetch
    /\ parseText \in LotTexts \cup ExpiryTexts \cup OCRTexts
    /\ parsedLot = None
    /\ parsedExpiry = None
    /\ extracted = NoExtract
    /\ parsePc = "call"

\* one call of parseLotCode
ParseLotCode ==
    /\ parsePc = "call"
    /\ parsedLot' = parseLotCode(parseText)
    /\ parsePc' = "lot"
    /\ UNCHANGED <<parseText, parsedExpiry, extracted>>
    /\ UNCHANGED <<decideVars, upcVars, rangeVars, simVars,
                 swVars, storeVars, fetchVars>>

\* one call of parseExpiryDate, on whichever engine the build runs
ParseExpiryDate ==
    /\ parsePc = "call"
    /\ \E engine \in Engines : parsedExpiry' = parseExpiryDate(parseText, engine)
    /\ parsePc' = "expiry"
    /\ UNCHANGED <<parseText, parsedLot, extracted>>
    /\ UNCHANGED <<decideVars, upcVars, rangeVars, simVars,
                 swVars, storeVars, fetchVars>>

\* one call of extractFromOCRText, on whichever engine the build runs
ExtractFromOCRText ==
    /\ parsePc = "call"
    /\ \E engine \in Engines : extracted' = extractFromOCRText(parseText, engine)
    /\ parsePc' = "extracted"
    /\ UNCHANGED <<parseText, parsedLot, parsedExpiry>>
    /\ UNCHANGED <<decideVars, upcVars, rangeVars, simVars,
                 swVars, storeVars, fetchVars>>

NextParse == ParseLotCode \/ ParseExpiryDate \/ ExtractFromOCRText

SpecParse == InitParse /\ [][NextParse]_vars

----------------------------------------------------------------------------
(* Inputs of isDateInRange                                                 *)

\* days of the calendar, a day February does not have, and texts that are
\* no date on any engine
RangeTexts ==
    { <<"2", "0", "2", "4", "-", "0", "1", "-", "0", "1">>,
      <<"2", "0", "2", "4", "-", "0", "6", "-", "1", "5">>,
      <<"2", "0", "2", "5", "-", "0", "6", "-", "1", "5">>,
      <<"2", "0", "2", "4", "-", "0", "2", "-", "3", "0">>,
      <<"s", "o", "o", "n">>,
      <<>> }

RangeBounds == {None} \cup {Some(t) : t \in RangeTexts}

InitRange ==
    /\ IdleDecide /\ IdleUPC /\ IdleParse /\ IdleSim
    /\ IdleSW /\ IdleStore /\ IdleFetch
    /\ rangeDate \in RangeTexts
    /\ rangeStart \in RangeBounds
    /\ rangeEnd \in RangeBounds
    /\ inRange = FALSE
    /\ rangePc = "call"

\* one call of isDateInRange, on whichever engine the build runs
IsDateInRange ==
    /\ rangePc = "call"
    /\ \E engine \in Engines :
           inRange' = isDateInRange(rangeDate, rangeStart, rangeEnd, engine)
    /\ rangePc' = "returned"
    /\ UNCHANGED <<rangeDate, rangeStart, rangeEnd>>
    /\ UNCHANGED <<decideVars, upcVars, parseVars, simVars,
                 swVars, storeVars, fetchVars>>

NextRange == IsDateInRange

SpecRange == InitRange /\ [][NextRange]_vars

----------------------------------------------------------------------------
(* Inputs of the text similarity                                           *)

\* the longest generated name
MaxName == 4

\* every string of two letters up to the bound
GeneratedNames ==
    UNION {[1..n -> {"x", "y"}] : n \in 0..MaxName}

\* brand names: some made of stop words and punctuation only
NamedNames ==
    { <<>>, <<" ">>, <<"&">>, <<"t", "h", "e">>, <<"T", "h", "e", " ", "O", "f">>,
      <<"A", "c", "m", "e">>, <<"a", "c", "m", "e", "!">>, <<"A", "c", "n", "e">>,
      <<"t", "h", "e", " ", "a", "c", "m", "e">>, <<"Z", "e", "s", "t">>,
      <<"a", "c", "e", "m">>, <<"Z", "e", "t", "s">>,
      <<"A", "c", "m", "e", " ", "J", "a", "m">>,
      <<"J", "a", "m", " ", "A", "c", "m", "e">>,
      <<" ", "J", "a", "m", ",", " ", "b", "y", " ", "A", "c", "m", "e", ".">> }

Names == NamedNames \cup GeneratedNames

InitSim ==
    /\ IdleDecide /\ IdleUPC /\ IdleParse /\ IdleRange
    /\ IdleSW /\ IdleStore /\ IdleFetch
    /\ name1 \in Names
    /\ name2 \in Names
    /\ similarity = NoScore
    /\ brandSimilar = FALSE
    /\ cosineSquared = NoScore
    /\ productSimilar = FALSE
    /\ normalized = <<>>
    /\ simPc = "call"

\* one call of jaroWinklerSimilarity
JaroWinklerSimilarity ==
    /\ simPc = "call"
    /\ similarity' = jaroWinklerSimilarity(name1, name2)
    /\ simPc' = "scored"
    /\ UNCHANGED <<name1, name2, brandSimilar, cosineSquared, productSimilar, normalized>>
    /\ UNCHANGED <<decideVars, upcVars, parseVars, rangeVars,
                 swVars, storeVars, fetchVars>>

\* one call of isBrandSimilar with the default threshold
IsBrandSimilar ==
    /\ simPc = "call"
    /\ brandSimilar' = isBrandSimilar(name1, name2, 80)
    /\ simPc' = "compared"
    /\ UNCHANGED <<name1, name2, similarity, cosineSquared, productSimilar, normalized>>
    /\ UNCHANGED <<decideVars, upcVars, parseVars, rangeVars,
                 swVars, storeVars, fetchVars>>

\* one call of cosineSimilarity with the default n-gram size; the variable
\* holds the square of the score
CosineSimilarity ==
    /\ simPc = "call"
    /\ cosineSquared' = cosineSimilaritySquared(name1, name2, 2)
    /\ simPc' = "cosine"
    /\ UNCHANGED <<name1, name2, similarity, brandSimilar, productSimilar, normalized>>
    /\ UNCHANGED <<decideVars, upcVars, parseVars, rangeVars,
                 swVars, storeVars, fetchVars>>

\* one call of isProductSimilar with the default threshold
IsProductSimilar ==
    /\ simPc = "call"
    /\ productSimilar' = isProductSimilar(name1, name2, 70)
    /\ simPc' = "product"
    /\ UNCHANGED <<name1, name2, similarity, brandSimilar, cosineSquared, normalized>>
    /\ UNCHANGED <<decideVars, upcVars, parseVars, rangeVars,
                 swVars, storeVars, fetchVars>>

\* one call of normalizeText
NormalizeText ==
    /\ simPc = "call"
    /\ normalized' = normalizeText(name1)
    /\ simPc' = "normalized"
    /\ UNCHANGED <<name1, name2, similarity, brandSimilar, cosineSquared, productSimilar>>
    /\ UNCHANGED <<decideVars, upcVars, parseVars, rangeVars,
                 swVars, storeVars, fetchVars>>

NextSim ==
    \/ JaroWinklerSimilarity
    \/ IsBrandSimilar
    \/ CosineSimilarity
    \/ IsProductSimilar
    \/ NormalizeText

SpecSim == InitSim /\ [][NextSim]_vars

----------------------------------------------------------------------------
(* The service worker and the server of the recall data                    *)

\* the last version of the recall data the server publishes
MaxVersion == 4

\* the worker is installed and active, nothing cached under /data/ yet
InitSW ==
    /\ IdleDecide /\ IdleUPC /\ IdleParse /\ IdleRange /\ IdleSim
    /\ IdleStore /\ IdleFetch
    /\ serverData = 1
    /\ network \in {"up", "error", "down"}
    /\ dataCache = None
    /\ delivered = None
    /\ swPc = "idle"

\* the server publishes new recall data
PublishData ==
    /\ serverData < MaxVersion
    /\ serverData' = serverData + 1
    /\ swPc' = "idle"
    /\ UNCHANGED <<network, dataCache, delivered>>
    /\ UNCHANGED <<decideVars, upcVars, parseVars, rangeVars, simVars, storeVars, fetchVars>>

\* the network comes up, starts answering with errors, or goes down
NetworkChanges ==
    /\ \E net \in {"up", "error", "down"} \ {network} : network' = net
    /\ swPc' = "idle"
    /\ UNCHANGED <<serverData, dataCache, delivered>>
    /\ UNCHANGED <<decideVars, upcVars, parseVars, rangeVars, simVars, storeVars, fetchVars>>

\* the fetch listener handles a GET of /data/latest.json
FetchData ==
    /\ LET handled == HandleDataFetch(dataCache, network, serverData)
       IN  /\ dataCache' = handled.cache
           /\ delivered' = handled.response
    /\ swPc' = "fetch"
    /\ UNCHANGED <<serverData, network>>
    /\ UNCHANGED <<decideVars, upcVars, parseVars, rangeVars, simVars, storeVars, fetchVars>>

\* the sync listener handles a 'data-sync' event
SyncData ==
    /\ dataCache' = updateRecallData(dataCache, network, serverData)
    /\ swPc' = "sync"
    /\ UNCHANGED <<serverData, network, delivered>>
    /\ UNCHANGED <<decideVars, upcVars, parseVars, rangeVars, simVars, storeVars, fetchVars>>

NextSW == PublishData \/ NetworkChanges \/ FetchData \/ SyncData

SpecSW == InitSW /\ [][NextSW]_vars

----------------------------------------------------------------------------
(* The calls made to the scanner store                                     *)

\* the scans handed to setScanResult
ScanResults ==
    { [upc |-> Some(UPC_A), brand |-> None, product |-> None, lot |-> None,
       expiry |-> None],
      [upc |-> Some(EAN_13), brand |-> Some(Acme), product |-> Some(Jam),
       lot |-> Some(<<"L", "2", "2", "0", "1">>), expiry |-> None] }

\* the results of decide handed to setDecision
Decisions ==
    { Green, UPCTier(<<Catalog[1]>>, None), UPCTier(<<Catalog[2]>>, Some(<<"L", "9">>)) }

\* the messages handed to setError
Errors == {None, Some(<<"C", "a", "m", "e", "r", "a">>)}

InitStore ==
    /\ IdleDecide /\ IdleUPC /\ IdleParse /\ IdleRange /\ IdleSim
    /\ IdleSW /\ IdleFetch
    /\ store = InitialStore
    /\ decidedSinceScan = FALSE

SetScanResult ==
    /\ \E scanned \in ScanResults : store' = setScanResult(store, scanned)
    /\ decidedSinceScan' = FALSE
    /\ UNCHANGED <<decideVars, upcVars, parseVars, rangeVars, simVars, swVars, fetchVars>>

SetDecision ==
    /\ \E d \in Decisions :
           store' = setDecision(store, Some(d.decision), d.reasons, d.matches, d.confidence)
    /\ decidedSinceScan' = TRUE
    /\ UNCHANGED <<decideVars, upcVars, parseVars, rangeVars, simVars, swVars, fetchVars>>

SetScanning ==
    /\ \E scanning \in BOOLEAN : store' = setScanning(store, scanning)
    /\ UNCHANGED decidedSinceScan
    /\ UNCHANGED <<decideVars, upcVars, parseVars, rangeVars, simVars, swVars, fetchVars>>

SetProcessing ==
    /\ \E processing \in BOOLEAN : store' = setProcessing(store, processing)
    /\ UNCHANGED decidedSinceScan
    /\ UNCHANGED <<decideVars, upcVars, parseVars, rangeVars, simVars, swVars, fetchVars>>

SetError ==
    /\ \E error \in Errors : store' = setError(store, error)
    /\ UNCHANGED decidedSinceScan
    /\ UNCHANGED <<decideVars, upcVars, parseVars, rangeVars, simVars, swVars, fetchVars>>

Reset ==
    /\ store' = reset(store)
    /\ decidedSinceScan' = FALSE
    /\ UNCHANGED <<decideVars, upcVars, parseVars, rangeVars, simVars, swVars, fetchVars>>

NextStore ==
    \/ SetScanResult
    \/ SetDecision
    \/ SetScanning
    \/ SetProcessing
    \/ SetError
    \/ Reset

SpecStore == InitStore /\ [][NextStore]_vars

----------------------------------------------------------------------------
(* The openFDA API and one run of fetchAllFDARecalls                       *)

\* the most raw records the API holds
MaxRecords == 5

\* the data sets of the API: raw record i passes validateFDARecall or not
DataSets ==
    UNION { {[i \in 1..n |-> [id |-> i, valid |-> v[i]]] : v \in [1..n -> BOOLEAN]} :
            n \in 0..MaxRecords }

InitFetch ==
    /\ IdleDecide /\ IdleUPC /\ IdleParse /\ IdleRange /\ IdleSim
    /\ IdleSW /\ IdleStore
    /\ served \in DataSets
    /\ fetchSkip = 0
    /\ hasMore = TRUE
    /\ allRecalls = <<>>
    /\ requested = <<>>
    /\ lastResults = None
    /\ fetchPc = "loop"

\* one turn of the while loop in which the request succeeds
FetchPage ==
    /\ fetchPc = "loop" /\ hasMore
    /\ LET recalls == fetchFDARecalls(served, fetchSkip)
       IN  IF Len(recalls) = 0
             THEN hasMore' = FALSE /\ UNCHANGED <<allRecalls, fetchSkip>>
             ELSE /\ allRecalls' = allRecalls \o recalls
                  /\ fetchSkip' = fetchSkip + limit
                  /\ UNCHANGED hasMore
    /\ requested' = Append(requested, fetchSkip)
    /\ lastResults' = Some(ResultsAt(served, fetchSkip))
    /\ UNCHANGED <<served, fetchPc>>
    /\ UNCHANGED <<decideVars, upcVars, parseVars, rangeVars, simVars, swVars, storeVars>>

\* one turn of the while loop in which the request fails
FetchPageFails ==
    /\ fetchPc = "loop" /\ hasMore
    /\ hasMore' = FALSE
    /\ requested' = Append(requested, fetchSkip)
    /\ lastResults' = None
    /\ UNCHANGED <<served, allRecalls, fetchSkip, fetchPc>>
    /\ UNCHANGED <<decideVars, upcVars, parseVars, rangeVars, simVars, swVars, storeVars>>

\* the loop is left and allRecalls returned
ReturnAll ==
    /\ fetchPc = "loop" /\ ~hasMore
    /\ fetchPc' = "returned"
    /\ UNCHANGED <<served, fetchSkip, hasMore, allRecalls, requested, lastResults>>
    /\ UNCHANGED <<decideVars, upcVars, parseVars, rangeVars, simVars, swVars, storeVars>>

NextFetch == FetchPage \/ FetchPageFails \/ ReturnAll

SpecFetch == InitFetch /\ [][NextFetch]_vars

----------------------------------------------------------------------------
(* Vocabulary of the claims about decide, stated from the specification    *)
(* rather than through the helpers of decide                               *)

Returned == pc = "returned"

Hits == Range(sourceHits)

\* the candidate records that satisfy P, in candidate order
HitsWhere(P(_)) == SelectSeq(sourceHits, P)

\* section 4.1: two valid identifiers are equivalent if they are identical,
\* or both UPC-A sharing 11 digits, or both EAN-13 sharing 12 digits
EquivalentIdentifiers(x, y) ==
    /\ x.isValid /\ y.isValid
    /\ \/ x.normalized = y.normalized
       \/ /\ x.type = "UPC-A" /\ y.type = "UPC-A"
          /\ SubSeq(x.normalized, 1, 11) = SubSeq(y.normalized, 1, 11)
       \/ /\ x.type = "EAN-13" /\ y.type = "EAN-13"
          /\ SubSeq(x.normalized, 1, 12) = SubSeq(y.normalized, 1, 12)

\* the record matches the scan by UPC
UPCMatched(r) ==
    /\ IsSome(scan.upc)
    /\ \E k \in 1..Len(r.upcs) :
           EquivalentIdentifiers(normalizeUPC(Get(scan.upc)), normalizeUPC(r.upcs[k]))

HasField(o) == IsSome(o) /\ Get(o) # <<>>

\* the record matches the scan by brand/product, an absent field a wildcard
BrandProductMatched(r) ==
    /\ HasField(scan.brand) \/ HasField(scan.product)
    /\ HasField(scan.brand) =>
           \E k \in 1..Len(r.brand) :
               AtLeast(jaroWinklerSimilarity(Get(scan.brand), r.brand[k]), 80)
    /\ HasField(scan.product) => isProductSimilar(Get(scan.product), r.product, 70)

HasLotRestriction(r) == IsSome(r.lotRegex)
HasWindow(r) == IsSome(r.expiration)

\* the scan's lot code satisfies the record's lot restriction
LotSatisfied(r) ==
    /\ HasLotRestriction(r) /\ HasField(scan.lot)
    /\ \E k \in 1..Len(Get(r.lotRegex)) :
           matchesLotPattern(Get(scan.lot), Get(r.lotRegex)[k])

\* the number YYYYMMDD of a calendar date written YYYY-MM-DD
DateKey(s) == ParseInt(StripNonDigits(s))

\* the scan's expiry lies in the record's validity window
WindowSatisfied(r) ==
    /\ HasWindow(r) /\ HasField(scan.expiry)
    /\ LET window == Get(r.expiration)
           day == DateKey(Get(scan.expiry))
       IN  /\ IsSome(window.start) => DateKey(Get(window.start)) <= day
           /\ IsSome(window.end) => day <= DateKey(Get(window.end))

IsUPCTierResult(r) ==
    /\ r.confidence \in {Some(95), Some(80)}
    /\ r.reasons[1] = "Exact UPC match found"

IsBrandProductTierResult(r) ==
    /\ r.confidence \in {Some(85), Some(70), Some(60)}
    /\ r.reasons[1] = "Brand and product match found"

----------------------------------------------------------------------------
(* C1                                                                      *)

\* C1: whenever some candidate record matches the scan by UPC, decide
\* returns a UPC-tier result (confidence 0.95 or 0.8, first reason 'Exact
\* UPC match found') and never a brand/product-tier result.
C1_TierPriority ==
    (Returned /\ \E r \in Hits : UPCMatched(r)) =>
        /\ IsUPCTierResult(result)
        /\ result.confidence \notin {Some(85), Some(70), Some(60)}
        /\ "Brand and product match found" \notin Range(result.reasons)

\* a record matches by UPC, a candidate matches by brand/product with a
\* satisfied lot or window, and decide has answered from the UPC tier
C1_Witness ==
    /\ Returned
    /\ \E r \in Hits : UPCMatched(r) /\ BrandProductMatched(r) /\ LotSatisfied(r)
    /\ \E r \in Hits : ~UPCMatched(r) /\ BrandProductMatched(r) /\ WindowSatisfied(r)
    /\ IsUPCTierResult(result)

----------------------------------------------------------------------------
(* C2                                                                      *)

\* the record has no lot restriction or one the scan's lot code satisfies
C2_Unrestricted(r) == ~HasLotRestriction(r) \/ LotSatisfied(r)

C2_Red(r) == ~HasLotRestriction(r) \/ ~HasField(scan.lot) \/ LotSatisfied(r)

----------------------------------------------------------------------------
(* C3                                                                      *)

\* every identifier text of the current call
UPCTexts ==
    (IF IsSome(scan.upc) THEN {Get(scan.upc)} ELSE {})
        \cup UNION {Range(r.upcs) : r \in Hits}

\* the digits of the two texts agree: all of them, or all but the check digit
DigitsAgree(a, b) ==
    LET x == StripNonDigits(a)
        y == StripNonDigits(b)
    IN  /\ Len(x) = Len(y) /\ Len(x) > 0
        /\ SubSeq(x, 1, Len(x) - 1) = SubSeq(y, 1, Len(y) - 1)

\* C3: an identifier with isValid = false is never a positive match:
\* areUPCEquivalent is false when either argument is invalid, and decide
\* returns no UPC-tier result when the scan's UPC is invalid or agrees only
\* with record UPCs that fail their checksum; the brand/product tier then
\* decides.
C3_InvalidNeverMatches ==
    Returned =>
        /\ \A a \in UPCTexts, b \in UPCTexts :
               (~normalizeUPC(a).isValid \/ ~normalizeUPC(b).isValid)
                   => (~areUPCEquivalent(a, b) /\ ~areUPCEquivalent(b, a))
        /\ ( \/ ~IsSome(scan.upc)
             \/ ~normalizeUPC(Get(scan.upc)).isValid
             \/ \A r \in Hits : \A k \in 1..Len(r.upcs) :
                    DigitsAgree(Get(scan.upc), r.upcs[k])
                        => ~normalizeUPC(r.upcs[k]).isValid )
           => /\ ~IsUPCTierResult(result)
              /\ result.confidence \notin {Some(95), Some(80)}
              /\ (\E r \in Hits : BrandProductMatched(r))
                     => IsBrandProductTierResult(result)

\* the scan's UPC fails its checksum, a record carries the same digits and
\* matches by brand/product, and decide answered from the brand/product tier
C3_Witness ==
    /\ Returned
    /\ IsSome(scan.upc) /\ ~normalizeUPC(Get(scan.upc)).isValid
    /\ \E r \in Hits :
           /\ \E k \in 1..Len(r.upcs) : DigitsAgree(Get(scan.upc), r.upcs[k])
           /\ BrandProductMatched(r)
    /\ IsBrandProductTierResult(result)

----------------------------------------------------------------------------
(* C4                                                                      *)

\* C4: when no record matches by UPC and some brand/product-matching record
\* has a lot pattern the scan's lot matches or a validity window containing
\* the scan's expiry, decide returns RED with confidence 0.85 - also for a
\* record with both constraints and a scan with both fields.
C4_AnySatisfiedConstraintIsRed ==
    ( /\ Returned
      /\ ~\E r \in Hits : UPCMatched(r)
      /\ \E r \in Hits : BrandProductMatched(r) /\ (LotSatisfied(r) \/ WindowSatisfied(r)) )
    => (result.decision = "RED" /\ result.confidence = Some(85))

----------------------------------------------------------------------------
(* C5                                                                      *)

\* C5: when no record matches by UPC and some record matches by
\* brand/product, decide returns YELLOW 0.6 if no matching record carries a
\* lot or expiry constraint, and YELLOW 0.7 if some matching record is
\* constrained and no matching record has a constraint the scan satisfies;
\* in neither case GREEN.
C5_BrandProductYellow ==
    LET matched == {r \in Hits : BrandProductMatched(r)}
        unconstrained == \A r \in matched : ~HasLotRestriction(r) /\ ~HasWindow(r)
        unsatisfied == \A r \in matched : ~LotSatisfied(r) /\ ~WindowSatisfied(r)
    IN  (Returned /\ (~\E r \in Hits : UPCMatched(r)) /\ matched # {}) =>
            /\ unconstrained
                   => (result.decision = "YELLOW" /\ result.confidence = Some(60))
            /\ (~unconstrained /\ unsatisfied)
                   => (result.decision = "YELLOW" /\ result.confidence = Some(70))
            /\ (unconstrained \/ unsatisfied) => result.decision # "GREEN"

\* a matching record with a validity window only, a scan whose expiry lies
\* outside it, an unconstrained matching record beside it: YELLOW 0.7
C5_Witness ==
    /\ Returned
    /\ ~\E r \in Hits : UPCMatched(r)
    /\ \E r \in Hits : /\ BrandProductMatched(r)
                       /\ HasWindow(r) /\ ~HasLotRestriction(r)
                       /\ HasField(scan.expiry) /\ ~WindowSatisfied(r)
    /\ \E r \in Hits : BrandProductMatched(r) /\ ~HasLotRestriction(r) /\ ~HasWindow(r)
    /\ result.decision = "YELLOW" /\ result.confidence = Some(70)

----------------------------------------------------------------------------
(* C6                                                                      *)

BrandSimilarToScan(r) ==
    \E k \in 1..Len(r.brand) :
        AtLeast(jaroWinklerSimilarity(Get(scan.brand), r.brand[k]), 80)

\* C6: an absent scan field is a wildcard.  With brand set and product
\* absent, the brand/product tier matches every candidate that has a
\* brand variant brand-similar to the scan brand, whatever its product;
\* with only product set, every candidate whose product is product-similar,
\* whatever its brands.  Such a candidate keeps decide from GREEN.
C6_Wildcard ==
    Returned =>
        /\ (HasField(scan.brand) /\ ~IsSome(scan.product)) =>
               /\ \A r \in Hits :
                      BrandSimilarToScan(r) =>
                          r \in Range(findBrandProductMatches(scan.brand, scan.product,
                                                              sourceHits))
               /\ (\E r \in Hits : BrandSimilarToScan(r)) => result.decision # "GREEN"
        /\ (HasField(scan.product) /\ ~IsSome(scan.brand)) =>
               /\ \A r \in Hits :
                      isProductSimilar(Get(scan.product), r.product, 70) =>
                          r \in Range(findBrandProductMatches(scan.brand, scan.product,
                                                              sourceHits))
               /\ (\E r \in Hits : isProductSimilar(Get(scan.product), r.product, 70))
                      => result.decision # "GREEN"

\* brand set, product absent, a candidate with a similar brand and an
\* unrelated product: it is among the matches decide returned
C6_Witness ==
    /\ Returned
    /\ HasField(scan.brand) /\ ~IsSome(scan.product)
    /\ \E r \in Hits :
           /\ BrandSimilarToScan(r)
           /\ ~isProductSimilar(Jam, r.product, 70)
           /\ r \in Range(result.matches)
    /\ IsBrandProductTierResult(result)

----------------------------------------------------------------------------
(* C7                                                                      *)

\* C7: a scan with every field absent, any scan against no candidate, and a
\* scan with only lot and/or expiry all get GREEN, no matches, no confidence.
C7_NoSignalIsGreen ==
    ( /\ Returned
      /\ \/ Len(sourceHits) = 0
         \/ ~IsSome(scan.upc) /\ ~IsSome(scan.brand) /\ ~IsSome(scan.product) )
    => /\ result.decision = "GREEN"
       /\ result.matches = <<>>
       /\ result.confidence = None

\* a scan with a lot and an expiry only, against candidates
C7_Witness ==
    /\ Returned
    /\ ~IsSome(scan.upc) /\ ~IsSome(scan.brand) /\ ~IsSome(scan.product)
    /\ HasField(scan.lot) /\ HasField(scan.expiry)
    /\ Len(sourceHits) > 0
    /\ result.decision = "GREEN"

----------------------------------------------------------------------------
(* C8                                                                      *)

\* C8: for every result of decide, decision = GREEN <=> matches empty <=>
\* confidence absent; a present confidence is 0.95 or 0.85 with RED and
\* 0.8, 0.7 or 0.6 with YELLOW.
C8_WellFormedResult ==
    Returned =>
        /\ result.decision \in {"GREEN", "YELLOW", "RED"}
        /\ (result.decision = "GREEN") <=> (result.matches = <<>>)
        /\ (result.matches = <<>>) <=> (result.confidence = None)
        /\ result.confidence \in
               {None, Some(95), Some(80), Some(85), Some(70), Some(60)}
        /\ result.decision = "RED" => result.confidence \in {Some(95), Some(85)}
        /\ result.decision = "YELLOW"
               => result.confidence \in {Some(80), Some(70), Some(60)}

\* a RED result of the brand/product tier
C8_Witness ==
    /\ Returned
    /\ result.decision = "RED" /\ result.confidence = Some(85)
    /\ Len(result.matches) > 0

----------------------------------------------------------------------------
(* C9                                                                      *)

\* a pattern that compiles and matches no lot code of the model
NeverMatching == <<"^", "Z", "Z", "Z", "Z", "$">>

\* the record with every pattern that does not compile replaced
WithoutBroken(r) ==
    IF IsSome(r.lotRegex)
      THEN [r EXCEPT !.lotRegex =
               Some([k \in 1..Len(Get(r.lotRegex)) |->
                        IF RegExpSyntaxError(Get(r.lotRegex)[k]) THEN NeverMatching
                        ELSE Get(r.lotRegex)[k]])]
      ELSE r

HasBrokenPattern(r) ==
    IsSome(r.lotRegex)
        /\ \E k \in 1..Len(Get(r.lotRegex)) : RegExpSyntaxError(Get(r.lotRegex)[k])

\* C9: matchesLotPattern answers false for a pattern that does not compile,
\* and decide classifies all candidates as it would if such patterns were
\* well-formed patterns that do not match: same decision, same confidence,
\* same reasons, the same records among the matches.
C9_MalformedPatternAbsorbed ==
    Returned =>
        LET clean == [i \in 1..Len(sourceHits) |-> WithoutBroken(sourceHits[i])]
        IN  /\ \A r \in Hits : IsSome(r.lotRegex) /\ HasField(scan.lot) =>
                   \A k \in 1..Len(Get(r.lotRegex)) :
                       RegExpSyntaxError(Get(r.lotRegex)[k])
                           => matchesLotPattern(Get(scan.lot), Get(r.lotRegex)[k]) = FALSE
            /\ \E engine \in Engines :
                   LET expected == decide([Input EXCEPT !.sourceHits = clean], engine)
                   IN  /\ result.decision = expected.decision
                       /\ result.confidence = expected.confidence
                       /\ result.reasons = expected.reasons
                       /\ [i \in 1..Len(result.matches) |-> result.matches[i].id]
                              = [i \in 1..Len(expected.matches) |->
                                     expected.matches[i].id]

\* a scan with a lot code, a candidate whose patterns do not compile beside
\* a candidate that the lot code puts in the RED set
C9_Witness ==
    /\ Returned
    /\ HasField(scan.lot)
    /\ \E r \in Hits : HasBrokenPattern(r) /\ UPCMatched(r) /\ r \notin Range(result.matches)
    /\ \E r \in Hits : ~HasBrokenPattern(r) /\ LotSatisfied(r) /\ r \in Range(result.matches)
    /\ result.decision = "RED"

----------------------------------------------------------------------------
(* C10                                                                     *)

\* the standard weight of the digit at 0-based index i: 3 on the digit next
\* to the check digit and alternating from there (3,1,3,... from index 0 for
\* EAN-8 and UPC-A, 1,3,1,... for EAN-13)
StandardWeight(length, i) ==
    IF length = 13 THEN (IF i % 2 = 0 THEN 1 ELSE 3) ELSE (IF i % 2 = 0 THEN 3 ELSE 1)

RECURSIVE StandardSum(_, _, _)
StandardSum(code, length, i) ==
    IF i < 0 THEN 0
    ELSE DigitVal(code[i + 1]) * StandardWeight(length, i) + StandardSum(code, length, i - 1)

StandardCheckDigit(code) ==
    (10 - (StandardSum(code, Len(code), Len(code) - 2) % 10)) % 10

\* C10: for every 8-, 12- and 13-digit code, normalizeUPC(code).isValid is
\* true exactly when the last digit is the standard modulo-10 check digit
\* of the digits before it.
C10_ChecksumCorrect ==
    (upcPc = "normalized" /\ Len(StripNonDigits(upc1)) \in {8, 12, 13}) =>
        LET code == StripNonDigits(upc1)
        IN  details.isValid <=> (DigitVal(code[Len(code)]) = StandardCheckDigit(code))

----------------------------------------------------------------------------
(* C11                                                                     *)

\* C11: for every identifier x that normalizes to a valid UPC-A, EAN-13 or
\* EAN-8, areUPCEquivalent(x, x) is true.
C11_SelfEquivalent ==
    (upcPc = "compared" /\ upc2 = upc1 /\ normalizeUPC(upc1).isValid) => equivalent

----------------------------------------------------------------------------
(* C12                                                                     *)

\* C12: for all input strings a and b, valid or not and of any kind,
\* areUPCEquivalent(a, b) = areUPCEquivalent(b, a).
C12_Symmetric ==
    upcPc = "compared" => (equivalent <=> areUPCEquivalent(upc2, upc1))

\* two different texts were compared, one valid and one not, of one kind
C12_Witness ==
    /\ upcPc = "compared"
    /\ upc1 # upc2
    /\ normalizeUPC(upc1).isValid /\ ~normalizeUPC(upc2).isValid
    /\ normalizeUPC(upc1).type = normalizeUPC(upc2).type
    /\ ~equivalent

----------------------------------------------------------------------------
(* Vocabulary of the claims about the field parser                         *)

RECURSIVE DigitRuns(_)
\* the maximal runs of digits of s, in order
DigitRuns(s) ==
    IF Len(s) = 0 THEN <<>>
    ELSE IF s[1] \in Digits
      THEN <<SubSeq(s, 1, DigitRun(s, 1))>>
           \o DigitRuns(SubSeq(s, DigitRun(s, 1) + 1, Len(s)))
    ELSE DigitRuns(Tail(s))

\* the year a two- or four-digit year text stands for
YearOf(y) ==
    IF Len(y) = 2 THEN (IF ParseInt(y) < 50 THEN 2000 + ParseInt(y) ELSE 1900 + ParseInt(y))
    ELSE ParseInt(y)

\* year, month and day name a day of the calendar
IsCalendarDate(y, m, d) == m \in 1..12 /\ d \in 1..DaysInMonth(y, m)

\* YYYY-MM-DD
ISOText(y, m, d) ==
    NumberToString(y) \o <<"-">> \o PadStart(NumberToString(m), 2)
    \o <<"-">> \o PadStart(NumberToString(d), 2)

\* month, day and year, bare or after a label
NumericDateTexts ==
    { label \o date : label \in ExpiryLabels, date \in NumericDates }

\* the text has one of the forms of EXPIRY_PATTERNS
IsDateShaped(s) ==
    \E i \in 1..Len(EXPIRY_PATTERNS) : MatchExpiry(trim(s), EXPIRY_PATTERNS[i]) # NoMatch

----------------------------------------------------------------------------
(* C13                                                                     *)

\* C13: for every text YYYY-MM-DD that names a real calendar date,
\* parseExpiryDate returns a ParsedExpiry whose normalized value is that
\* same text.
C13_ISOAccepted ==
    (parsePc = "expiry" /\ IsISODate(parseText)) =>
        IsSome(parsedExpiry) /\ Get(parsedExpiry).normalized = parseText

----------------------------------------------------------------------------
(* C14                                                                     *)

\* C14: for a date-shaped text month/day/year, parseExpiryDate yields none
\* when month, day and year (a two-digit year below 50 read as 2000+year,
\* otherwise 1900+year) do not name a real calendar date, and yields that
\* date in ISO form when they do.
C14_ImpossibleDateRejected ==
    (parsePc = "expiry" /\ parseText \in NumericDateTexts /\ IsDateShaped(parseText)) =>
        LET fields == DigitRuns(parseText)
            month == ParseInt(fields[1])
            day == ParseInt(fields[2])
            year == YearOf(fields[3])
        IN  IF IsCalendarDate(year, month, day)
              THEN /\ IsSome(parsedExpiry)
                   /\ Get(parsedExpiry).normalized = ISOText(year, month, day)
              ELSE parsedExpiry = None

----------------------------------------------------------------------------
(* C15                                                                     *)

\* the ParsedExpiry values the state holds
ReturnedExpiries ==
    IF parsePc = "expiry" THEN Range(parsedExpiry)
    ELSE IF parsePc = "extracted" THEN Range(extracted.expiries)
    ELSE {}

\* C15 as stated: every ParsedExpiry returned by parseExpiryDate, and so
\* every entry of extractFromOCRText(...).expiries, has confidence 1.0.
C15_AsClaimed ==
    \A e \in ReturnedExpiries : e.confidence = 100

\* C15 amended: every ParsedExpiry returned by parseExpiryDate, and so every
\* entry of extractFromOCRText(...).expiries, has confidence 0.9.
C15_ConfidenceIsPointNine ==
    \A e \in ReturnedExpiries : e.confidence = 90

\* an OCR text gave two dates, one bare and one after a label
C15_Witness ==
    /\ parsePc = "extracted"
    /\ Len(extracted.expiries) = 2
    /\ extracted.expiries[1].raw # extracted.expiries[2].raw

----------------------------------------------------------------------------
(* C16                                                                     *)

RECURSIVE AtIndicesFrom(_, _, _)
\* the elements of seq at the indices in S, in order, from index i on
AtIndicesFrom(seq, S, i) ==
    IF i > Len(seq) THEN <<>>
    ELSE (IF i \in S THEN <<seq[i]>> ELSE <<>>) \o AtIndicesFrom(seq, S, i + 1)

\* seq without its i-th element
RemoveAt(seq, i) == SubSeq(seq, 1, i - 1) \o SubSeq(seq, i + 1, Len(seq))

\* the line parses as a lot code
IsLotLine(line) == parseLotCode(line) # None

\* the line parses as an expiry date on some engine
IsExpiryLine(line) == \E engine \in Engines : parseExpiryDate(line, engine) # None

\* C16: extractFromOCRText classifies each non-empty trimmed line at most
\* once, as a lot if parseLotCode accepts it and as an expiry only
\* otherwise: there are disjoint sets of line numbers whose lines, in line
\* order, are the lots and the expiries; |lots| + |expiries| is at most the
\* number of lines; and leaving out a line that parses as neither gives the
\* same result.
C16_OneClassPerLine ==
    parsePc = "extracted" =>
        LET lines == Lines(parseText)
            n == Len(lines)
            lotRaws == [k \in 1..Len(extracted.lots) |-> extracted.lots[k].raw]
            expiryRaws == [k \in 1..Len(extracted.expiries) |-> extracted.expiries[k].raw]
        IN  /\ Len(extracted.lots) + Len(extracted.expiries) <= n
            /\ \E asLot \in SUBSET (1..n) : \E asExpiry \in SUBSET ((1..n) \ asLot) :
                   /\ lotRaws = AtIndicesFrom(lines, asLot, 1)
                   /\ expiryRaws = AtIndicesFrom(lines, asExpiry, 1)
                   /\ \A i \in asLot : IsLotLine(lines[i])
                   /\ \A i \in asExpiry : ~IsLotLine(lines[i]) /\ IsExpiryLine(lines[i])
                   /\ extracted.lots
                          = [k \in 1..Len(lotRaws) |-> Get(parseLotCode(lotRaws[k]))]
            /\ \A i \in 1..n :
                   (~IsLotLine(lines[i]) /\ ~IsExpiryLine(lines[i])) =>
                       \E engine \in Engines :
                           extractFromOCRText(Join(RemoveAt(lines, i)), engine) = extracted

\* three lines: a lot code, a line that is neither, an expiry date
C16_Witness ==
    /\ parsePc = "extracted"
    /\ Len(Lines(parseText)) = 3
    /\ IsLotLine(Lines(parseText)[1])
    /\ ~IsLotLine(Lines(parseText)[2]) /\ ~IsExpiryLine(Lines(parseText)[2])
    /\ Len(extracted.lots) = 1 /\ Len(extracted.expiries) = 1
    /\ extracted.expiries[1].raw = Lines(parseText)[3]

----------------------------------------------------------------------------
(* C17                                                                     *)

\* the labels of the labelled lot forms
LotLabelWords == LotLabels \ {<<>>}

IsModelLabel(label) == toUpperCase(label) = <<"M", "O", "D", "E", "L">>

\* an optional single letter and then at least 4 digits, and nothing more
IsOptionalLetterAndDigits(value) ==
    \E p \in {0, 1} :
        /\ p = 1 => (Len(value) >= 1 /\ value[1] \in Letters)
        /\ Len(value) - p >= 4
        /\ \A i \in (p + 1)..Len(value) : value[i] \in Digits

\* a non-empty run of letters and digits
IsLettersAndDigits(value) ==
    value # <<>> /\ \A i \in 1..Len(value) : value[i] \in Letters \cup Digits

\* C17 as stated: a text that starts with LOT, BATCH, SERIAL or MODEL is
\* accepted only if the label is followed by an optional single letter and
\* at least 4 digits.
C17_AsClaimed ==
    parsePc = "lot" =>
        \A label \in LotLabelWords, separator \in LotSeparators, value \in LotValues :
            (parseText = label \o separator \o value /\ IsSome(parsedLot))
                => IsOptionalLetterAndDigits(value)

\* C17 amended: a text that starts with LOT, BATCH or SERIAL is accepted
\* exactly if the label (and any colons and spaces after it) is followed by
\* an optional single letter and at least 4 digits; a text that starts with
\* MODEL is accepted exactly if the label is followed by a non-empty run of
\* letters and digits, so 'MODEL: ABC' and 'MODEL: A1' are accepted.
C17_LabelledForms ==
    parsePc = "lot" =>
        \A label \in LotLabelWords, separator \in LotSeparators, value \in LotValues :
            parseText = label \o separator \o value =>
                (IsSome(parsedLot) <=>
                    IF IsModelLabel(label) THEN IsLettersAndDigits(value)
                    ELSE IsOptionalLetterAndDigits(value))

\* a MODEL text with fewer than 4 digits was accepted
C17_Witness ==
    /\ parsePc = "lot"
    /\ IsSome(parsedLot)
    /\ \E label \in LotLabelWords, separator \in LotSeparators, value \in LotValues :
           /\ parseText = label \o separator \o value
           /\ IsModelLabel(label)
           /\ Len(DigitRuns(value)) = 0

----------------------------------------------------------------------------
(* C18                                                                     *)

\* C18: whenever parseLotCode succeeds, normalized consists only of
\* characters that occur in the uppercased input, and for a text without a
\* label it is the uppercased trimmed input.
C18_NormalizedFromInput ==
    (parsePc = "lot" /\ IsSome(parsedLot)) =>
        /\ Range(Get(parsedLot).normalized) \subseteq Range(toUpperCase(parseText))
        /\ (\A label \in LotLabelWords : ~StartsWithLabel(trim(parseText), toUpperCase(label)))
               => Get(parsedLot).normalized = toUpperCase(trim(parseText))

----------------------------------------------------------------------------
(* C19                                                                     *)

\* the text is a date on no engine
IsUnparseable(s) == \A engine \in Engines : IsNaN(ParseDate(s, engine))

\* C19: isDateInRange returns false whenever the target date is
\* unparseable, and whenever a start or end bound is supplied, the empty
\* string included, and is not a parseable date.
C19_FailsClosed ==
    ( /\ rangePc = "returned"
      /\ \/ IsUnparseable(rangeDate)
         \/ IsSome(rangeStart) /\ IsUnparseable(Get(rangeStart))
         \/ IsSome(rangeEnd) /\ IsUnparseable(Get(rangeEnd)) )
        => ~inRange

----------------------------------------------------------------------------
(* C20                                                                     *)

IsOne(score) == score.num = score.den
IsZero(score) == score.num = 0

\* C20: jaroWinklerSimilarity is 1.0 when the two normalized strings are
\* identical and non-empty and 0.0 when either is empty, both empty
\* included; isBrandSimilar is false when one side normalizes to the empty
\* string.
C20_ShortCircuits ==
    LET n1 == normalizeText(name1)
        n2 == normalizeText(name2)
    IN  /\ simPc = "scored" =>
               /\ (n1 = n2 /\ n1 # <<>>) => IsOne(similarity)
               /\ (n1 = <<>> \/ n2 = <<>>) => IsZero(similarity)
        /\ simPc = "compared" =>
               ((n1 = <<>> \/ n2 = <<>>) => ~brandSimilar)

----------------------------------------------------------------------------
(* C21                                                                     *)

\* C21: jaroWinklerSimilarity(a, b) = jaroWinklerSimilarity(b, a) and
\* cosineSimilarity(a, b) = cosineSimilarity(b, a) for all strings a, b, so
\* isBrandSimilar and isProductSimilar do not depend on the argument order.
C21_Symmetric ==
    /\ simPc = "scored" => similarity = jaroWinklerSimilarity(name2, name1)
    /\ simPc = "cosine" => cosineSquared = cosineSimilaritySquared(name2, name1, 2)
    /\ simPc = "compared" => brandSimilar = isBrandSimilar(name2, name1, 80)
    /\ simPc = "product" => productSimilar = isProductSimilar(name2, name1, 70)

\* C21 witness: a score strictly between 0 and 1 for two names of different
\* normalized length.
C21_Witness ==
    /\ simPc = "scored"
    /\ Len(normalizeText(name1)) # Len(normalizeText(name2))
    /\ ~IsZero(similarity)
    /\ ~IsOne(similarity)

----------------------------------------------------------------------------
(* C23                                                                     *)

\* the digit characters of a text, in order
RECURSIVE DigitCharsOf(_)
DigitCharsOf(s) ==
    IF s = <<>> THEN <<>>
    ELSE (IF Head(s) \in Digits THEN <<Head(s)>> ELSE <<>>) \o DigitCharsOf(Tail(s))

KindOfCount(n) ==
    CASE n = 8 -> "EAN-8"
      [] n = 12 -> "UPC-A"
      [] n = 13 -> "EAN-13"
      [] OTHER -> "invalid"

\* C23: normalizeUPC returns for every input string; the kind is EAN-8, UPC-A
\* or EAN-13 exactly when the input holds 8, 12 or 13 digit characters,
\* normalized is exactly those digits, and any other count gives kind
\* 'invalid' with isValid false.
C23_ClassifiedByDigitCount ==
    upcPc = "normalized" =>
        LET digits == DigitCharsOf(upc1)
        IN  /\ details.type = KindOfCount(Len(digits))
            /\ details.normalized = digits
            /\ details.type = "invalid" => ~details.isValid

\* C23 witness: a labelled text with twelve digits among other characters is
\* classified UPC-A.
C23_Witness ==
    /\ upcPc = "normalized"
    /\ details.type = "UPC-A"
    /\ \E i \in DOMAIN upc1 : upc1[i] \in Range(UpperChars)

\* C23 witness: a text whose digit count is none of 8, 12, 13 is invalid.
C23_WitnessInvalid ==
    /\ upcPc = "normalized"
    /\ details.type = "invalid"
    /\ Len(DigitCharsOf(upc1)) \in {7, 9, 11, 14}

----------------------------------------------------------------------------
(* C24                                                                     *)

RECURSIVE WordsFrom(_, _, _)
\* the maximal runs of word characters of s from index i on; `word` is the
\* run that ends just before i
WordsFrom(s, i, word) ==
    LET done == IF word = <<>> THEN {} ELSE {word}
    IN  IF i > Len(s) THEN done
        ELSE IF s[i] \in WordChars THEN WordsFrom(s, i + 1, Append(word, s[i]))
        ELSE done \cup WordsFrom(s, i + 1, <<>>)

WordsOf(s) == WordsFrom(s, 1, <<>>)

\* C24: the output of normalizeText is lowercase, has no leading or trailing
\* whitespace, no punctuation, no run of two or more whitespace characters
\* and no stop word left as a whole word, and normalizing it again changes
\* nothing.
C24_Canonical ==
    simPc = "normalized" =>
        /\ \A i \in DOMAIN normalized : normalized[i] \notin Range(UpperChars)
        /\ normalized # <<>> =>
               normalized[1] \notin SpaceChars /\ normalized[Len(normalized)] \notin SpaceChars
        /\ \A i \in DOMAIN normalized : normalized[i] \in WordChars \cup SpaceChars
        /\ \A i \in 1..(Len(normalized) - 1) :
               ~(normalized[i] \in SpaceChars /\ normalized[i + 1] \in SpaceChars)
        /\ WordsOf(normalized) \cap StopWords = {}
        /\ normalizeText(normalized) = normalized

----------------------------------------------------------------------------
(* C25                                                                     *)

\* two texts of twelve or of thirteen digits that differ in the last digit only
DifferInCheckDigitOnly(a, b) ==
    LET x == DigitCharsOf(a)
        y == DigitCharsOf(b)
    IN  /\ Len(x) \in {12, 13}
        /\ Len(y) = Len(x)
        /\ SubSeq(x, 1, Len(x) - 1) = SubSeq(y, 1, Len(y) - 1)
        /\ x[Len(x)] # y[Len(y)]

\* C25: areUPCEquivalent relates two different digit strings of the same kind
\* that share the first 11 digits (UPC-A) or the first 12 digits (EAN-13) and
\* differ only in the check digit.
C25_CheckDigitTolerated ==
    (upcPc = "compared" /\ DifferInCheckDigitOnly(upc1, upc2)) => equivalent

----------------------------------------------------------------------------
(* C26                                                                     *)

\* C26: a RED result of the UPC tier carries the reason 'Lot code matches
\* recall criteria' only if some returned record has a lot pattern that the
\* scan's lot code matches, and the reason 'No lot code restrictions in
\* recall' only if the returned records have no lot restriction.
C26_ReasonsTruthful ==
    (Returned /\ result.decision = "RED" /\ IsUPCTierResult(result)) =>
        /\ "Lot code matches recall criteria" \in Range(result.reasons) =>
               \E r \in Range(result.matches) : LotSatisfied(r)
        /\ "No lot code restrictions in recall" \in Range(result.reasons) =>
               \A r \in Range(result.matches) : ~HasLotRestriction(r)

----------------------------------------------------------------------------
(* C27                                                                     *)

\* C27: whenever decide returns a brand/product-tier result, every candidate
\* record that matched the scan by brand/product and carries no lot or
\* expiry constraint is contained in the result's matches, also when other
\* matching records are constrained.
C27_NoSupportingRecordDropped ==
    (Returned /\ IsBrandProductTierResult(result)) =>
        \A r \in Hits :
            (BrandProductMatched(r) /\ ~HasLotRestriction(r) /\ ~HasWindow(r))
                => r \in Range(result.matches)

----------------------------------------------------------------------------
(* C28                                                                     *)

\* the UPC-tier YELLOW result
IsUPCTierYellow(r) ==
    /\ r.decision = "YELLOW"
    /\ r.confidence = Some(80)
    /\ "Your lot code does not match the recalled lots" \in Range(r.reasons)

C28_WitnessYellow ==
    /\ Returned
    /\ IsUPCTierYellow(result)
    /\ HasField(scan.lot)

----------------------------------------------------------------------------
(* C22                                                                     *)

\* C22: for a GET of a path under /data/ the fetch handler asks the network
\* first and serves the cached copy only when the network fails: a request
\* made while the network is up returns and re-caches the data the server
\* publishes at that moment, also when an older copy is cached.
C22_NetworkFirst ==
    /\ (swPc = "fetch" /\ network = "up") =>
           /\ delivered = Some(Response(serverData, TRUE))
           /\ dataCache = Some(serverData)
    /\ (swPc = "fetch" /\ network = "down" /\ IsSome(dataCache)) =>
           delivered = Some(Response(Get(dataCache), TRUE))

----------------------------------------------------------------------------
(* C29                                                                     *)

\* the store holds a decision
HoldsDecision == IsSome(store.decision)

\* C29: whenever the store holds a decision, that decision was set after the
\* most recent setScanResult, and an error and a decision are never both
\* present.
C29_DecisionIsFresh ==
    /\ HoldsDecision => decidedSinceScan
    /\ ~(HoldsDecision /\ IsSome(store.error))

----------------------------------------------------------------------------
(* C30                                                                     *)

\* the normalized form of the valid records among the first n the API holds
ValidAmongFirst(n) ==
    LET ids == {i \in 1..Min(n, Len(served)) : served[i].valid}
    IN  {[id |-> i] : i \in ids}

\* C30: the loop requests skip = 0, limit, 2*limit, ... in order and stops
\* only when the API returns a page with no results or a request fails;
\* every record of every earlier page that passes validateFDARecall is in
\* the returned list exactly once.
C30_Pagination ==
    fetchPc = "returned" =>
        /\ \A i \in 1..Len(requested) : requested[i] = (i - 1) * limit
        /\ lastResults = None \/ Get(lastResults) = <<>>
        /\ Range(allRecalls) = ValidAmongFirst((Len(requested) - 1) * limit)
        /\ Cardinality(Range(allRecalls)) = Len(allRecalls)

====
